---- MODULE Spec2Model ----
(***************************************************************************)
(* A model of the front-end of the cooper compiler: the parser's token     *)
(* buffer with its semicolon inference (peek / consume), the recursive     *)
(* descent / Pratt parser built on top of it, and the driver of the        *)
(* semantic passes.                                                        *)
(*                                                                         *)
(* Token kinds are the names of the lexer's TokenType constants.  A token  *)
(* is a record [Type, Value, SrcPos].  The Go value Token{} (returned by   *)
(* prevToken / currentToken / nextToken outside the buffer) has the kind   *)
(* EOF, the first constant of the iota block.                              *)
(*                                                                         *)
(* The parser object is the record                                         *)
(*    [tokens, pos, parenStack, inThenBranch, panicked, iterations,        *)
(*     stalled]                                                            *)
(* pos is the Go index (0-based): the current token is tokens[pos + 1].    *)
(* panicked models a Go panic unwinding the whole parse: once it is set,   *)
(* every operation leaves the parser as it is.  iterations is a history of *)
(* the run: the iterations of the loops of the parser and the recursive    *)
(* calls of peek made so far, each with the position and the length of the *)
(* buffer before and after it.  stalled is set by an iteration that has    *)
(* consumed no token and has not panicked: the loop is not followed past   *)
(* it.                                                                     *)
(***************************************************************************)
EXTENDS Naturals, Integers, Sequences, FiniteSets, TLC

VARIABLES input, tokens, pos, parenStack, inThenBranch, status, program, iterations,
          phase, resolverErrors, checkerErrors, semanticErrors, allErrors,
          source, lexPos, lexed, lexStatus, lexError,
          moduleAst, resolved, fatal

parserVars == <<input, tokens, pos, parenStack, inThenBranch, status, program, iterations>>
checkVars == <<phase, resolverErrors, checkerErrors, semanticErrors, allErrors>>
\* the lexer: the source text, the position of Tokenize in it, the tokens
\* appended so far, and how the call ended
lexVars == <<source, lexPos, lexed, lexStatus, lexError>>
\* the passes on a concrete module: the AST, the result of the resolver, and
\* the panic that stopped a pass
passVars == <<moduleAst, resolved, fatal>>
vars == <<input, tokens, pos, parenStack, inThenBranch, status, program, iterations,
          phase, resolverErrors, checkerErrors, semanticErrors, allErrors,
          source, lexPos, lexed, lexStatus, lexError,
          moduleAst, resolved, fatal>>

-----------------------------------------------------------------------------
(* Bounds *)

MaxLen == 4

\* SpecParse: length of the token slices enumerated over ParseLexemes
MaxTokens == 3

\* SpecParse: number of binary or assignment operators in an operator chain
MaxOps == 2

\* SpecParse: number of statements in a generated statement list
MaxStmts == 2

\* SpecParse: nesting depth of the generated brace-less if-statements
MaxIfDepth == 2

\* SpecCheck: number of errors that one pass reports
MaxErrors == 3

-----------------------------------------------------------------------------
(* Tokens *)

Tok(type, value, srcPos) == [Type |-> type, Value |-> value, SrcPos |-> srcPos]

\* lexer.Token{} : the zero value, whose Type is EOF
ZeroToken == [Type |-> "EOF", Value |-> "", SrcPos |-> 0]

RemoveAt(s, i) == SubSeq(s, 1, i - 1) \o SubSeq(s, i + 1, Len(s))

newParser(toks) ==
    [tokens |-> toks, pos |-> 0, parenStack |-> <<>>,
     inThenBranch |-> FALSE, panicked |-> FALSE, iterations |-> {}, stalled |-> FALSE]

Panic(p) == [p EXCEPT !.panicked = TRUE]

\* the iteration of the loop named loop that the parser p began and the
\* parser q ended, with the types of the tokens of p that are not in q
Iteration(loop, p, q, deleted) ==
    [loop |-> loop, pos |-> p.pos, posAfter |-> q.pos,
     len |-> Len(p.tokens), lenAfter |-> Len(q.tokens), deleted |-> deleted]

\* the parser after an iteration of a loop, p being the parser at the head of
\* the loop and q the parser at the end of the body: the iteration joins the
\* history when the body has not panicked.  An iteration that has consumed no
\* token leaves the parser stalled, and nothing more is parsed
Iterated(loop, p, q) ==
    IF q.panicked THEN q
    ELSE [q EXCEPT !.iterations = @ \cup {Iteration(loop, p, q, {})},
                   !.stalled = q.pos <= p.pos,
                   !.panicked = q.pos <= p.pos]

\* the parser q that peek calls itself on, p being the parser of the call
\* that deleted a token
Recursed(p, q) ==
    [q EXCEPT !.iterations = @ \cup {Iteration("peek", p, q, {p.tokens[p.pos + 1].Type})}]

beforeSemicolon ==
    {"NUMBER", "STRING", "IDENTIFIER", "UNDERSCORE", "COMMA", "CLOSE_BRACKET",
     "CLOSE_CURLY", "CLOSE_PAREN", "ELSE", "FALSE", "RETURN", "THEN", "TRUE"}

afterSemicolon ==
    {"EOF", "COMMENT", "NUMBER", "STRING", "IDENTIFIER", "UNDERSCORE",
     "SEMICOLON", "OPEN_CURLY", "CLOSE_CURLY", "OPEN_PAREN", "FALSE", "FOR",
     "FUNC", "IF", "ELSE", "LET", "RETURN", "STRUCT", "TRUE", "USE"}

popParenStack(p, t) ==
    IF Len(p.parenStack) = 0 THEN Panic(p)
    ELSE LET top == p.parenStack[Len(p.parenStack)] IN
         IF \/ (top = "OPEN_PAREN" /\ t # "CLOSE_PAREN")
            \/ (top = "OPEN_CURLY" /\ t # "CLOSE_CURLY")
            \/ (top = "OPEN_BRACKET" /\ t # "CLOSE_BRACKET")
         THEN Panic(p)
         ELSE [p EXCEPT !.parenStack = SubSeq(p.parenStack, 1, Len(p.parenStack) - 1)]

prevToken(p) == IF p.pos > 0 THEN p.tokens[p.pos] ELSE ZeroToken

currentToken(p) == IF p.pos < Len(p.tokens) THEN p.tokens[p.pos + 1] ELSE ZeroToken

nextToken(p) == IF p.pos + 1 < Len(p.tokens) THEN p.tokens[p.pos + 2] ELSE ZeroToken

\* peek returns [p |-> the parser after the call, v |-> the token returned]
RECURSIVE peek(_)

\* peek without the test on the bracket stack
peekIgnoresParens(p) ==
    LET currToken == currentToken(p) IN
    IF p.panicked THEN [p |-> p, v |-> ZeroToken]
    ELSE IF currToken.Type = "EOL" THEN
        LET isBeforeClosingBrace == nextToken(p).Type = "CLOSE_CURLY"
            deleted == [p EXCEPT !.tokens = RemoveAt(p.tokens, p.pos + 1)]
            statementCanTerminate ==
                /\ prevToken(p).Type \in beforeSemicolon
                /\ nextToken(p).Type \in afterSemicolon
        IN  IF isBeforeClosingBrace THEN peek(deleted)
            ELSE IF statementCanTerminate /\ nextToken(p).Type # "EOF"
            THEN LET q == [p EXCEPT !.tokens[p.pos + 1] =
                                Tok("SEMICOLON", ";", currToken.SrcPos)]
                 IN  [p |-> q, v |-> currentToken(q)]
            ELSE peek(deleted)
    ELSE [p |-> p, v |-> currentToken(p)]

\* peek without the special case of an EOL before a closing curly
peekNoClosingBraceCase(p) ==
    LET currToken == currentToken(p) IN
    IF p.panicked THEN [p |-> p, v |-> ZeroToken]
    ELSE IF currToken.Type = "EOL" THEN
        LET deleted == [p EXCEPT !.tokens = RemoveAt(p.tokens, p.pos + 1)]
            isOutsideParens == Len(p.parenStack) = 0
            statementCanTerminate ==
                /\ prevToken(p).Type \in beforeSemicolon
                /\ nextToken(p).Type \in afterSemicolon
        IN  IF isOutsideParens /\ statementCanTerminate /\ nextToken(p).Type # "EOF"
            THEN LET q == [p EXCEPT !.tokens[p.pos + 1] =
                                Tok("SEMICOLON", ";", currToken.SrcPos)]
                 IN  [p |-> q, v |-> currentToken(q)]
            ELSE peek(deleted)
    ELSE [p |-> p, v |-> currentToken(p)]

\* peek that deletes the EOL together with the token after it (off by one in
\* the slice bound)
peekDeletesNext(p) ==
    LET currToken == currentToken(p) IN
    IF p.panicked THEN [p |-> p, v |-> ZeroToken]
    ELSE IF currToken.Type = "EOL" THEN
        LET isBeforeClosingBrace == nextToken(p).Type = "CLOSE_CURLY"
            deleted == [p EXCEPT !.tokens = SubSeq(p.tokens, 1, p.pos) \o
                                            SubSeq(p.tokens, p.pos + 3, Len(p.tokens))]
            isOutsideParens == Len(p.parenStack) = 0
            statementCanTerminate ==
                /\ prevToken(p).Type \in beforeSemicolon
                /\ nextToken(p).Type \in afterSemicolon
        IN  IF isBeforeClosingBrace THEN peek(deleted)
            ELSE IF isOutsideParens /\ statementCanTerminate /\ nextToken(p).Type # "EOF"
            THEN LET q == [p EXCEPT !.tokens[p.pos + 1] =
                                Tok("SEMICOLON", ";", currToken.SrcPos)]
                 IN  [p |-> q, v |-> currentToken(q)]
            ELSE peek(deleted)
    ELSE [p |-> p, v |-> currentToken(p)]

peek(p) ==
    LET currToken == currentToken(p) IN
    IF p.panicked THEN [p |-> p, v |-> ZeroToken]
    ELSE IF currToken.Type = "EOL" THEN
        LET isBeforeClosingBrace == nextToken(p).Type = "CLOSE_CURLY"
            deleted == Recursed(p, [p EXCEPT !.tokens = RemoveAt(p.tokens, p.pos + 1)])
            isOutsideParens == Len(p.parenStack) = 0
            statementCanTerminate ==
                /\ prevToken(p).Type \in beforeSemicolon
                /\ nextToken(p).Type \in afterSemicolon
        IN  IF isBeforeClosingBrace THEN peek(deleted)
            ELSE IF isOutsideParens /\ statementCanTerminate /\ nextToken(p).Type # "EOF"
            THEN LET q == [p EXCEPT !.tokens[p.pos + 1] =
                                Tok("SEMICOLON", ";", currToken.SrcPos)]
                 IN  [p |-> q, v |-> currentToken(q)]
            ELSE peek(deleted)
    ELSE [p |-> p, v |-> currentToken(p)]

\* consume(expected...): expected is the set of accepted kinds, {} accepts any
consume(p, expected) ==
    LET r == peek(p)
        popped ==
            CASE r.v.Type \in {"OPEN_PAREN", "OPEN_BRACKET"} ->
                    [r.p EXCEPT !.parenStack = Append(r.p.parenStack, r.v.Type)]
              [] r.v.Type \in {"CLOSE_PAREN", "CLOSE_BRACKET"} ->
                    popParenStack(r.p, r.v.Type)
              [] r.v.Type = "CLOSE_CURLY" ->
                    IF Len(r.p.parenStack) > 0
                       /\ r.p.parenStack[Len(r.p.parenStack)] = "OPEN_CURLY"
                    THEN popParenStack(r.p, r.v.Type)
                    ELSE r.p
              [] OTHER -> r.p
    IN  IF p.panicked THEN [p |-> p, v |-> ZeroToken]
        ELSE IF expected # {} /\ r.v.Type \notin expected
        THEN [p |-> Panic(r.p), v |-> ZeroToken]
        ELSE IF popped.panicked THEN [p |-> popped, v |-> ZeroToken]
        ELSE [p |-> [popped EXCEPT !.pos = popped.pos + 1], v |-> r.v]

\* p.parenStack = append(p.parenStack, lexer.OPEN_CURLY)
pushCurly(p) ==
    IF p.panicked THEN p
    ELSE [p EXCEPT !.parenStack = Append(p.parenStack, "OPEN_CURLY")]

-----------------------------------------------------------------------------
(* AST nodes: records tagged by the name of the Go struct in "node".  Nil   *)
(* is the Go nil of an absent Expr, Stmt or TypeExpr.                       *)

Nil == [node |-> "nil"]

UnitExpr == [node |-> "UnitExpr"]

\* the value returned by a parsing function together with the parser after it
R(p, v) == [p |-> p, v |-> v]

\* Call(f, p, a) is the call f(p, a[1], ..., a[n]) of the function named f on
\* the parser p, a being the tuple of its other arguments.  The functions of
\* the parser call one another through Call; a function calls itself by name.
RECURSIVE Call(_, _, _)

RECURSIVE parseStmt(_), parseExpr(_, _), parseExprTail(_, _, _), parseHeadExpr(_, _),
          parseTailExpr(_, _, _), parseTypeExpr(_), parseArrayTypeExpr(_, _),
          parseFuncTypeExpr(_), parseFuncTypeParams(_, _), parseDeclAssignExpr(_, _),
          parseVarDeclStmt(_), parseFuncDeclStmt(_), parseFuncDeclParams(_, _),
          parseStructDeclStmt(_), parseStructDeclMembers(_, _), parseIfExpr(_),
          parseIfStmt(_), parseForStmt(_), parseFuncCallExpr(_, _),
          parseFuncCallArgs(_, _), parseStructLiteralExpr(_, _),
          parseStructLiteralMembers(_, _), parseStructMemberExpr(_, _),
          parseArrayIndexExpr(_, _), parseReturnStmt(_), parseExpressionStmt(_),
          parseBlockStmt(_), parseBlockStmts(_, _), parseBlockExpr(_),
          parseUseDeclStmt(_), parseUseSpecs(_, _)

statementTerminates(p) ==
    LET r == Call("peek", p, <<>>) IN
    R(r.p, CASE r.v.Type \in {"SEMICOLON", "EOF", "CLOSE_CURLY"} -> TRUE
             [] r.v.Type = "ELSE" -> r.p.inThenBranch
             [] OTHER -> FALSE)

consumeStatementTerminator(p) ==
    LET r == Call("peek", p, <<>>) IN
    CASE r.v.Type = "SEMICOLON" -> Call("consume", r.p, <<{}>>).p
      [] r.v.Type = "EOF" -> r.p
      [] r.v.Type = "CLOSE_CURLY" -> r.p
      [] r.v.Type = "ELSE" -> IF r.p.inThenBranch THEN r.p ELSE Panic(r.p)
      [] OTHER -> Panic(r.p)

\* -1 stands for the panic of the default case
headPrecedence(tokenType) ==
    CASE tokenType \in {"EOF", "SEMICOLON", "OPEN_PAREN", "OPEN_CURLY"} -> 0
      [] tokenType \in {"NUMBER", "STRING", "WORD", "TRUE", "FALSE"} -> 1
      [] tokenType \in {"PLUS", "DASH"} -> 10
      [] OTHER -> -1

BP(lbp, rbp) == [lbp |-> lbp, rbp |-> rbp, panics |-> FALSE]

\* (lbp, rbp) of a token in tail position; panics is the default case
tailPrecedence(tokenType) ==
    CASE tokenType \in {"EOF", "SEMICOLON", "CLOSE_PAREN", "COMMA", "CLOSE_CURLY",
                        "CLOSE_BRACKET", "THEN", "ELSE"} -> BP(0, 0)
      [] tokenType \in {"EQUALS", "PLUS_EQUALS", "DASH_EQUALS", "COLON_EQUALS"} -> BP(1, 2)
      [] tokenType \in {"OR", "AND"} -> BP(4, 3)
      [] tokenType \in {"DOUBLE_EQUALS", "NOT_EQUALS"} -> BP(5, 6)
      [] tokenType \in {"LESS", "LESS_EQUALS", "GREATER", "GREATER_EQUALS"} -> BP(8, 7)
      [] tokenType \in {"PLUS", "DASH"} -> BP(10, 9)
      [] tokenType \in {"STAR", "SLASH", "PERCENT"} -> BP(12, 11)
      [] tokenType = "OPEN_CURLY" -> BP(13, 0)
      [] tokenType \in {"OPEN_PAREN", "OPEN_BRACKET"} -> BP(14, 0)
      [] tokenType = "DOT" -> BP(16, 15)
      [] OTHER -> [lbp |-> 0, rbp |-> 0, panics |-> TRUE]

\* the loop of parseExpr, entered with the head expression in leftExpr
parseExprTail(p, leftExpr, min_bp) ==
    LET t == Call("peek", p, <<>>)
        bp == tailPrecedence(t.v.Type)
    IN  IF p.panicked THEN R(p, Nil)
        ELSE IF bp.panics THEN R(Panic(t.p), Nil)
        ELSE IF bp.lbp <= min_bp THEN R(t.p, leftExpr)
        ELSE LET r == Call("parseTailExpr", t.p, <<leftExpr, bp.rbp>>)
             IN  parseExprTail(Iterated("tail", p, r.p), r.v, min_bp)

parseExpr(p, min_bp) ==
    LET c == Call("consume", p, <<{}>>)
        h == Call("parseHeadExpr", c.p, <<c.v>>)
    IN  Call("parseExprTail", h.p, <<h.v, min_bp>>)

parseHeadExpr(p, token) ==
    IF p.panicked THEN R(p, Nil)
    ELSE CASE token.Type = "NUMBER" ->
                R(p, [node |-> "NumberLiteralExpr", Value |-> token.Value])
           [] token.Type = "STRING" ->
                R(p, [node |-> "StringLiteralExpr", Value |-> token.Value])
           [] token.Type = "IDENTIFIER" ->
                R(p, [node |-> "IdentExpr", Value |-> token.Value])
           [] token.Type \in {"TRUE", "FALSE"} ->
                R(p, [node |-> "BoolLiteralExpr", BoolValue |-> (token.Type = "TRUE")])
           [] token.Type \in {"PLUS", "DASH"} ->
                LET rhs == Call("parseExpr", p, <<headPrecedence(token.Type)>>)
                IN  R(rhs.p, [node |-> "UnaryExpr", Operator |-> token, Rhs |-> rhs.v])
           [] token.Type = "OPEN_PAREN" ->
                LET rhs == Call("parseExpr", p, <<headPrecedence(token.Type)>>)
                    c == Call("consume", rhs.p, <<{"CLOSE_PAREN"}>>)
                IN  R(c.p, [node |-> "GroupExpr", Expr |-> rhs.v])
           [] token.Type = "IF" -> Call("parseIfExpr", p, <<>>)
           [] token.Type = "OPEN_CURLY" ->
                LET rhs == Call("parseBlockExpr", p, <<>>)
                    c == Call("consume", rhs.p, <<{"CLOSE_CURLY"}>>)
                IN  R(c.p, rhs.v)
           [] OTHER -> R(Panic(p), Nil)

\* parseTailExpr that returns the left expression and leaves the operator in
\* the buffer
parseTailExprKeepsOperator(p, head, rbp) ==
    LET t == Call("peek", p, <<>>)
    IN  IF p.panicked THEN R(p, Nil) ELSE R(t.p, head)

parseTailExpr(p, head, rbp) ==
    LET t == Call("peek", p, <<>>)
        currToken == t.v
    IN  IF p.panicked THEN R(p, Nil)
        ELSE CASE currToken.Type = "COLON_EQUALS" -> Call("parseDeclAssignExpr", t.p, <<head>>)
               [] currToken.Type \in {"EQUALS", "PLUS_EQUALS", "DASH_EQUALS",
                                      "STAR_EQUALS", "SLASH_EQUALS"} ->
                    LET operator == Call("consume", t.p, <<{}>>)
                        rhs == Call("parseExpr", operator.p, <<rbp>>)
                    IN  R(rhs.p, [node |-> "AssignExpr", Assigne |-> head,
                                  Operator |-> operator.v, AssignedValue |-> rhs.v])
               [] currToken.Type \in {"PLUS", "DASH", "STAR", "SLASH", "PERCENT", "LESS",
                                      "LESS_EQUALS", "GREATER", "GREATER_EQUALS"} ->
                    LET operator == Call("consume", t.p, <<{}>>)
                        rhs == Call("parseExpr", operator.p, <<rbp>>)
                    IN  R(rhs.p, [node |-> "BinaryExpr", Lhs |-> head,
                                  Operator |-> operator.v, Rhs |-> rhs.v])
               [] currToken.Type = "OPEN_PAREN" -> Call("parseFuncCallExpr", t.p, <<head>>)
               [] currToken.Type = "OPEN_CURLY" -> Call("parseStructLiteralExpr", t.p, <<head>>)
               [] currToken.Type = "OPEN_BRACKET" -> Call("parseArrayIndexExpr", t.p, <<head>>)
               [] currToken.Type = "DOT" -> Call("parseStructMemberExpr", t.p, <<head>>)
               [] OTHER -> R(Panic(t.p), Nil)

parseTypeExpr(p) ==
    LET t1 == Call("peek", p, <<>>)
        inner ==
            IF t1.v.Type = "OPEN_PAREN"
            THEN LET o == Call("consume", t1.p, <<{"OPEN_PAREN"}>>)
                     t == parseTypeExpr(o.p)
                     c == Call("consume", t.p, <<{"CLOSE_PAREN"}>>)
                 IN  R(c.p, t.v)
            ELSE IF t1.v.Type = "FUNC"
            THEN Call("parseFuncTypeExpr", t1.p, <<>>)
            ELSE LET name == Call("consume", t1.p, <<{"IDENTIFIER"}>>)
                 IN  R(name.p, [node |-> "NamedTypeExpr", TypeName |-> name.v.Value])
        t2 == Call("peek", inner.p, <<>>)
    IN  IF p.panicked THEN R(p, Nil)
        ELSE IF inner.p.panicked THEN R(inner.p, Nil)
        ELSE IF t2.v.Type = "OPEN_BRACKET" THEN Call("parseArrayTypeExpr", t2.p, <<inner.v>>)
        ELSE R(t2.p, inner.v)

parseArrayTypeExpr(p, innerType) ==
    LET o == Call("consume", p, <<{"OPEN_BRACKET"}>>)
        c == Call("consume", o.p, <<{"CLOSE_BRACKET"}>>)
        arrayType == [node |-> "ArrayTypeExpr", UnderlyingType |-> innerType]
        t == Call("peek", c.p, <<>>)
    IN  IF c.p.panicked THEN R(c.p, Nil)
        ELSE IF t.v.Type = "OPEN_BRACKET" THEN parseArrayTypeExpr(t.p, arrayType)
        ELSE R(t.p, arrayType)

\* the loop of parseFuncTypeExpr over the parameter types
parseFuncTypeParams(p, paramTypes) ==
    LET t == Call("peek", p, <<>>)
        param ==
            IF t.v.Type = "IDENTIFIER"
            THEN LET name == Call("consume", t.p, <<{"IDENTIFIER"}>>)
                     t2 == Call("peek", name.p, <<>>)
                 IN  IF t2.v.Type = "COLON"
                     THEN LET colon == Call("consume", t2.p, <<{"COLON"}>>) IN Call("parseTypeExpr", colon.p, <<>>)
                     ELSE R(t2.p, [node |-> "NamedTypeExpr", TypeName |-> name.v.Value])
            ELSE Call("parseTypeExpr", t.p, <<>>)
        t3 == Call("peek", param.p, <<>>)
    IN  IF p.panicked THEN R(p, paramTypes)
        ELSE IF t.v.Type = "CLOSE_PAREN" THEN R(t.p, paramTypes)
        ELSE IF param.p.panicked THEN R(param.p, paramTypes)
        ELSE IF t3.v.Type = "COMMA"
        THEN LET comma == Call("consume", t3.p, <<{"COMMA"}>>)
             IN  parseFuncTypeParams(Iterated("parameter types", p, comma.p),
                                     Append(paramTypes, param.v))
        ELSE R(Iterated("parameter types", p, t3.p), Append(paramTypes, param.v))

parseFuncTypeExpr(p) ==
    LET f == Call("consume", p, <<{"FUNC"}>>)
        o == Call("consume", f.p, <<{"OPEN_PAREN"}>>)
        params == Call("parseFuncTypeParams", o.p, << <<>> >>)
        c == Call("consume", params.p, <<{"CLOSE_PAREN"}>>)
        t == Call("peek", c.p, <<>>)
        returnType ==
            IF t.v.Type = "COLON"
            THEN LET colon == Call("consume", t.p, <<{"COLON"}>>) IN Call("parseTypeExpr", colon.p, <<>>)
            ELSE R(t.p, [node |-> "NamedTypeExpr", TypeName |-> "void"])
    IN  IF returnType.p.panicked THEN R(returnType.p, Nil)
        ELSE R(returnType.p, [node |-> "FuncTypeExpr", ReturnType |-> returnType.v,
                              ParamTypes |-> params.v])

parseDeclAssignExpr(p, expr) ==
    LET c == Call("consume", p, <<{"COLON_EQUALS"}>>)
        value == Call("parseExpr", c.p, <<0>>)
    IN  IF c.p.panicked THEN R(c.p, Nil)
        ELSE IF expr.node = "IdentExpr"
        THEN R(value.p, [node |-> "VarDeclAssignExpr", Name |-> expr.Value,
                         AssignedValue |-> value.v])
        ELSE R(Panic(c.p), Nil)

parseVarDeclStmt(p) ==
    LET l == Call("consume", p, <<{"LET"}>>)
        varName == Call("consume", l.p, <<{"IDENTIFIER"}>>)
        c == Call("consume", varName.p, <<{"COLON"}>>)
        varType == Call("parseTypeExpr", c.p, <<>>)
        st == Call("statementTerminates", varType.p, <<>>)
        initVal ==
            IF ~st.v
            THEN LET equals == Call("consume", st.p, <<{"EQUALS"}>>) IN Call("parseExpr", equals.p, <<0>>)
            ELSE R(st.p, Nil)
        q == Call("consumeStatementTerminator", initVal.p, <<>>)
    IN  IF varType.p.panicked THEN R(varType.p, Nil)
        ELSE IF initVal.p.panicked THEN R(initVal.p, Nil)
        ELSE R(q, [node |-> "VarDeclStmt",
                   Var |-> [Name |-> varName.v.Value, Type |-> varType.v],
                   InitVal |-> initVal.v])

\* the loop of parseFuncDeclStmt over the parameters
parseFuncDeclParams(p, params) ==
    LET t == Call("peek", p, <<>>)
        paramName == Call("consume", t.p, <<{"IDENTIFIER"}>>)
        c == Call("consume", paramName.p, <<{"COLON"}>>)
        paramType == Call("parseTypeExpr", c.p, <<>>)
        added == Append(params, [Name |-> paramName.v.Value, Type |-> paramType.v])
        t2 == Call("peek", paramType.p, <<>>)
    IN  IF p.panicked THEN R(p, params)
        ELSE IF t.v.Type = "CLOSE_PAREN" THEN R(t.p, params)
        ELSE IF paramType.p.panicked THEN R(paramType.p, params)
        ELSE IF t2.v.Type = "COMMA"
        THEN LET comma == Call("consume", t2.p, <<{"COMMA"}>>)
             IN  parseFuncDeclParams(Iterated("parameters", p, comma.p), added)
        ELSE parseFuncDeclParams(Iterated("parameters", p, t2.p), added)

parseFuncDeclStmt(p) ==
    LET f == Call("consume", p, <<{"FUNC"}>>)
        name == Call("consume", f.p, <<{"IDENTIFIER"}>>)
        o == Call("consume", name.p, <<{"OPEN_PAREN"}>>)
        params == Call("parseFuncDeclParams", o.p, << <<>> >>)
        c == Call("consume", params.p, <<{"CLOSE_PAREN"}>>)
        t == Call("peek", c.p, <<>>)
        returnType ==
            IF t.v.Type = "COLON"
            THEN LET colon == Call("consume", t.p, <<{"COLON"}>>) IN Call("parseTypeExpr", colon.p, <<>>)
            ELSE R(t.p, Nil)
        oc == Call("consume", returnType.p, <<{"OPEN_CURLY"}>>)
        funcBody == Call("parseBlockStmt", oc.p, <<>>)
        cc == Call("consume", funcBody.p, <<{"CLOSE_CURLY"}>>)
    IN  IF cc.p.panicked THEN R(cc.p, Nil)
        ELSE R(cc.p, [node |-> "FuncDeclStmt", Name |-> name.v.Value,
                      Parameters |-> params.v, ReturnType |-> returnType.v,
                      Body |-> funcBody.v])

\* the loop of parseStructDeclStmt over the members
parseStructDeclMembers(p, members) ==
    LET t == Call("peek", p, <<>>)
        memberName == Call("consume", t.p, <<{"IDENTIFIER"}>>)
        c == Call("consume", memberName.p, <<{"COLON"}>>)
        memberType == Call("parseTypeExpr", c.p, <<>>)
        added == Append(members, [Name |-> memberName.v.Value, Type |-> memberType.v])
        t2 == Call("peek", memberType.p, <<>>)
    IN  IF p.panicked THEN R(p, members)
        ELSE IF t.v.Type = "CLOSE_CURLY" THEN R(t.p, members)
        ELSE IF memberType.p.panicked THEN R(memberType.p, members)
        ELSE IF t2.v.Type = "COMMA"
        THEN LET comma == Call("consume", t2.p, <<{"COMMA"}>>)
             IN  parseStructDeclMembers(Iterated("members", p, comma.p), added)
        ELSE parseStructDeclMembers(Iterated("members", p, t2.p), added)

parseStructDeclStmt(p) ==
    LET s == Call("consume", p, <<{"STRUCT"}>>)
        name == Call("consume", s.p, <<{"IDENTIFIER"}>>)
        o == Call("consume", name.p, <<{"OPEN_CURLY"}>>)
        members == Call("parseStructDeclMembers", pushCurly(o.p), << <<>> >>)
        c == Call("consume", members.p, <<{"CLOSE_CURLY"}>>)
    IN  IF c.p.panicked THEN R(c.p, Nil)
        ELSE R(c.p, [node |-> "StructDeclStmt", Name |-> name.v.Value,
                     Members |-> members.v])

\* parseIfExpr with the else-branch made optional, as in parseIfStmt
parseIfExprElseOptional(p) ==
    LET cond == Call("parseExpr", p, <<0>>)
        th == Call("consume", cond.p, <<{"THEN"}>>)
        t1 == Call("peek", th.p, <<>>)
        thenExpr ==
            IF t1.v.Type = "OPEN_CURLY"
            THEN LET o == Call("consume", t1.p, <<{"OPEN_CURLY"}>>)
                     b == Call("parseBlockExpr", o.p, <<>>)
                     c == Call("consume", b.p, <<{"CLOSE_CURLY"}>>)
                 IN  R(c.p, b.v)
            ELSE Call("parseExpr", t1.p, <<0>>)
        t2 == Call("peek", thenExpr.p, <<>>)
        afterSemi == IF t2.v.Type = "SEMICOLON" THEN Call("consume", t2.p, <<{"SEMICOLON"}>>).p ELSE t2.p
        t3 == Call("peek", afterSemi, <<>>)
        elseExpr ==
            IF t3.v.Type # "ELSE" THEN R(t3.p, Nil)
            ELSE LET el == Call("consume", t3.p, <<{"ELSE"}>>)
                     t4 == Call("peek", el.p, <<>>)
                 IN  IF t4.v.Type = "OPEN_CURLY"
                     THEN LET o == Call("consume", t4.p, <<{"OPEN_CURLY"}>>)
                              b == Call("parseBlockExpr", o.p, <<>>)
                              c == Call("consume", b.p, <<{"CLOSE_CURLY"}>>)
                          IN  R(c.p, b.v)
                     ELSE Call("parseExpr", t4.p, <<0>>)
    IN  IF elseExpr.p.panicked THEN R(elseExpr.p, Nil)
        ELSE R(elseExpr.p, [node |-> "IfExpr", Cond |-> cond.v, Then |-> thenExpr.v,
                            Else |-> elseExpr.v])

\* called by parseHeadExpr after parseExpr has consumed the IF token
parseIfExpr(p) ==
    LET cond == Call("parseExpr", p, <<0>>)
        th == Call("consume", cond.p, <<{"THEN"}>>)
        t1 == Call("peek", th.p, <<>>)
        thenExpr ==
            IF t1.v.Type = "OPEN_CURLY"
            THEN LET o == Call("consume", t1.p, <<{"OPEN_CURLY"}>>)
                     b == Call("parseBlockExpr", o.p, <<>>)
                     c == Call("consume", b.p, <<{"CLOSE_CURLY"}>>)
                 IN  R(c.p, b.v)
            ELSE Call("parseExpr", t1.p, <<0>>)
        t2 == Call("peek", thenExpr.p, <<>>)
        afterSemi == IF t2.v.Type = "SEMICOLON" THEN Call("consume", t2.p, <<{"SEMICOLON"}>>).p ELSE t2.p
        el == Call("consume", afterSemi, <<{"ELSE"}>>)
        t3 == Call("peek", el.p, <<>>)
        elseExpr ==
            IF t3.v.Type = "OPEN_CURLY"
            THEN LET o == Call("consume", t3.p, <<{"OPEN_CURLY"}>>)
                     b == Call("parseBlockExpr", o.p, <<>>)
                     c == Call("consume", b.p, <<{"CLOSE_CURLY"}>>)
                 IN  R(c.p, b.v)
            ELSE Call("parseExpr", t3.p, <<0>>)
    IN  IF elseExpr.p.panicked THEN R(elseExpr.p, Nil)
        ELSE R(elseExpr.p, [node |-> "IfExpr", Cond |-> cond.v, Then |-> thenExpr.v,
                            Else |-> elseExpr.v])

parseIfStmt(p) ==
    LET i == Call("consume", p, <<{"IF"}>>)
        cond == Call("parseExpr", i.p, <<0>>)
        th == Call("consume", cond.p, <<{"THEN"}>>)
        t1 == Call("peek", th.p, <<>>)
        thenStmt ==
            IF t1.v.Type = "OPEN_CURLY"
            THEN LET o == Call("consume", t1.p, <<{"OPEN_CURLY"}>>)
                     b == Call("parseBlockStmt", o.p, <<>>)
                     c == Call("consume", b.p, <<{"CLOSE_CURLY"}>>)
                 IN  R(c.p, b.v)
            ELSE LET s == Call("parseStmt", [t1.p EXCEPT !.inThenBranch = TRUE], <<>>)
                 IN  R(IF s.p.panicked THEN s.p ELSE [s.p EXCEPT !.inThenBranch = FALSE], s.v)
        t2 == Call("peek", thenStmt.p, <<>>)
        elseStmt ==
            IF t2.v.Type = "ELSE"
            THEN LET el == Call("consume", t2.p, <<{"ELSE"}>>)
                     t3 == Call("peek", el.p, <<>>)
                 IN  IF t3.v.Type = "OPEN_CURLY"
                     THEN LET o == Call("consume", t3.p, <<{"OPEN_CURLY"}>>)
                              b == Call("parseBlockStmt", o.p, <<>>)
                              c == Call("consume", b.p, <<{"CLOSE_CURLY"}>>)
                          IN  R(c.p, b.v)
                     ELSE Call("parseStmt", t3.p, <<>>)
            ELSE R(t2.p, Nil)
    IN  IF th.p.panicked THEN R(th.p, Nil)
        ELSE IF thenStmt.p.panicked THEN R(thenStmt.p, Nil)
        ELSE IF elseStmt.p.panicked THEN R(elseStmt.p, Nil)
        ELSE R(elseStmt.p, [node |-> "IfStmt", Cond |-> cond.v, Then |-> thenStmt.v,
                            Else |-> elseStmt.v])

parseForStmt(p) ==
    LET f == Call("consume", p, <<{"FOR"}>>)
        o == Call("consume", f.p, <<{"OPEN_PAREN"}>>)
        initStmt == Call("parseStmt", o.p, <<>>)
        condStmt == Call("parseExpressionStmt", initStmt.p, <<>>)
        iter == Call("parseExpr", condStmt.p, <<0>>)
        c == Call("consume", iter.p, <<{"CLOSE_PAREN"}>>)
        oc == Call("consume", c.p, <<{"OPEN_CURLY"}>>)
        body == Call("parseBlockStmt", oc.p, <<>>)
        cc == Call("consume", body.p, <<{"CLOSE_CURLY"}>>)
    IN  IF cc.p.panicked THEN R(cc.p, Nil)
        ELSE R(cc.p, [node |-> "ForStmt", Init |-> initStmt.v, Cond |-> condStmt.v.Expr,
                      Iter |-> [node |-> "ExpressionStmt", Expr |-> iter.v,
                                ExplicitSemicolon |-> FALSE],
                      Body |-> body.v])

\* the loop of parseFuncCallExpr over the arguments
parseFuncCallArgs(p, args) ==
    LET t == Call("peek", p, <<>>)
        arg == Call("parseExpr", t.p, <<0>>)
        t2 == Call("peek", arg.p, <<>>)
    IN  IF p.panicked THEN R(p, args)
        ELSE IF t.v.Type = "CLOSE_PAREN" THEN R(t.p, args)
        ELSE IF arg.p.panicked THEN R(arg.p, args)
        ELSE IF t2.v.Type = "COMMA"
        THEN LET comma == Call("consume", t2.p, <<{"COMMA"}>>)
             IN  parseFuncCallArgs(Iterated("arguments", p, comma.p), Append(args, arg.v))
        ELSE parseFuncCallArgs(Iterated("arguments", p, t2.p), Append(args, arg.v))

parseFuncCallExpr(p, left) ==
    LET o == Call("consume", p, <<{"OPEN_PAREN"}>>)
        args == Call("parseFuncCallArgs", o.p, << <<>> >>)
        c == Call("consume", args.p, <<{"CLOSE_PAREN"}>>)
    IN  IF c.p.panicked THEN R(c.p, Nil)
        ELSE R(c.p, [node |-> "FuncCallExpr", Func |-> left, Args |-> args.v])

\* the loop of parseStructLiteralExpr over the member assignments
parseStructLiteralMembers(p, members) ==
    LET t == Call("peek", p, <<>>)
        memberName == Call("consume", t.p, <<{"IDENTIFIER"}>>)
        c == Call("consume", memberName.p, <<{"COLON"}>>)
        value == Call("parseExpr", c.p, <<0>>)
        comma == Call("consume", value.p, <<{"COMMA"}>>)
    IN  IF p.panicked THEN R(p, members)
        ELSE IF t.v.Type = "CLOSE_CURLY" THEN R(t.p, members)
        ELSE IF comma.p.panicked THEN R(comma.p, members)
        ELSE parseStructLiteralMembers(Iterated("literal members", p, comma.p),
                Append(members, [node |-> "MemberAssignExpr", Name |-> memberName.v.Value,
                                 Value |-> value.v]))

parseStructLiteralExpr(p, left) ==
    LET o == Call("consume", p, <<{"OPEN_CURLY"}>>)
        members == Call("parseStructLiteralMembers", pushCurly(o.p), << <<>> >>)
        c == Call("consume", members.p, <<{"CLOSE_CURLY"}>>)
    IN  IF c.p.panicked THEN R(c.p, Nil)
        ELSE R(c.p, [node |-> "StructLiteralExpr", Struct |-> left, Members |-> members.v])

parseStructMemberExpr(p, left) ==
    LET d == Call("consume", p, <<{"DOT"}>>)
        m == Call("consume", d.p, <<{"IDENTIFIER"}>>)
    IN  IF m.p.panicked THEN R(m.p, Nil)
        ELSE R(m.p, [node |-> "StructMemberExpr", Struct |-> left,
                     Member |-> [node |-> "IdentExpr", Value |-> m.v.Value]])

parseArrayIndexExpr(p, left) ==
    LET o == Call("consume", p, <<{"OPEN_BRACKET"}>>)
        indexExpr == Call("parseExpr", o.p, <<0>>)
        c == Call("consume", indexExpr.p, <<{"CLOSE_BRACKET"}>>)
    IN  IF c.p.panicked THEN R(c.p, Nil)
        ELSE R(c.p, [node |-> "ArrayIndexExpr", Array |-> left, Index |-> indexExpr.v])

parseReturnStmt(p) ==
    LET r == Call("consume", p, <<{"RETURN"}>>)
        st == Call("statementTerminates", r.p, <<>>)
        expr == Call("parseExpr", st.p, <<0>>)
    IN  IF r.p.panicked THEN R(r.p, Nil)
        ELSE IF st.v
        THEN R(Call("consumeStatementTerminator", st.p, <<>>), [node |-> "ReturnStmt", Expr |-> Nil])
        ELSE IF expr.p.panicked THEN R(expr.p, Nil)
        ELSE R(Call("consumeStatementTerminator", expr.p, <<>>), [node |-> "ReturnStmt", Expr |-> expr.v])

parseExpressionStmt(p) ==
    LET expr == Call("parseExpr", p, <<0>>)
        t == Call("peek", expr.p, <<>>)
        explicitSemicolon == t.v.Type = "SEMICOLON"
        q == Call("consumeStatementTerminator", t.p, <<>>)
    IN  IF expr.p.panicked THEN R(expr.p, Nil)
        ELSE R(q, [node |-> "ExpressionStmt", Expr |-> expr.v,
                   ExplicitSemicolon |-> explicitSemicolon])

\* the loop of parseBlockStmt
parseBlockStmts(p, statements) ==
    LET token == Call("peek", p, <<>>)
        s == Call("parseStmt", token.p, <<>>)
    IN  IF p.panicked THEN R(p, statements)
        ELSE IF token.v.Type = "EOF" \/ token.v.Type = "CLOSE_CURLY"
        THEN R(token.p, statements)
        ELSE IF s.p.panicked THEN R(s.p, statements)
        ELSE parseBlockStmts(Iterated("block", p, s.p), Append(statements, s.v))

parseBlockStmt(p) ==
    LET b == Call("parseBlockStmts", p, << <<>> >>)
    IN  R(b.p, [node |-> "BlockStmt", Statements |-> b.v])

parseBlockExpr(p) ==
    LET b == Call("parseBlockStmt", p, <<>>)
        statements == b.v.Statements
        n == Len(statements)
    IN  IF b.p.panicked THEN R(b.p, Nil)
        ELSE IF n > 0 /\ statements[n].node = "ExpressionStmt"
        THEN R(b.p, [node |-> "BlockExpr", Statements |-> SubSeq(statements, 1, n - 1),
                     ResultExpr |-> statements[n].Expr])
        ELSE R(b.p, [node |-> "BlockExpr", Statements |-> statements,
                     ResultExpr |-> UnitExpr])

\* the loop of parseUseDeclStmt
parseUseSpecs(p, specs) ==
    LET t == Call("peek", p, <<>>)
        name == Call("consume", t.p, <<{"IDENTIFIER"}>>)
        c == Call("consume", name.p, <<{"COLON"}>>)
        module == Call("consume", c.p, <<{"IDENTIFIER"}>>)
        comma == Call("consume", module.p, <<{"COMMA"}>>)
    IN  IF p.panicked THEN R(p, specs)
        ELSE IF t.v.Type = "CLOSE_CURLY" THEN R(t.p, specs)
        ELSE IF comma.p.panicked THEN R(comma.p, specs)
        ELSE parseUseSpecs(Iterated("use", p, comma.p),
                Append(specs, [node |-> "UseSpecExpr", Name |-> name.v.Value,
                               Module |-> module.v.Value]))

parseUseDeclStmt(p) ==
    LET u == Call("consume", p, <<{"USE"}>>)
        o == Call("consume", u.p, <<{"OPEN_CURLY"}>>)
        specs == Call("parseUseSpecs", o.p, << <<>> >>)
        c == Call("consume", specs.p, <<{"CLOSE_CURLY"}>>)
    IN  IF c.p.panicked THEN R(c.p, Nil)
        ELSE R(c.p, [node |-> "UseDeclStmt", UseSpecs |-> specs.v])

parseStmt(p) ==
    LET t == Call("peek", p, <<>>)
    IN  IF p.panicked THEN R(p, Nil)
        ELSE CASE t.v.Type = "FOR" -> Call("parseForStmt", t.p, <<>>)
               [] t.v.Type = "FUNC" -> Call("parseFuncDeclStmt", t.p, <<>>)
               [] t.v.Type = "IF" -> Call("parseIfStmt", t.p, <<>>)
               [] t.v.Type = "LET" -> Call("parseVarDeclStmt", t.p, <<>>)
               [] t.v.Type = "RETURN" -> Call("parseReturnStmt", t.p, <<>>)
               [] t.v.Type = "STRUCT" -> Call("parseStructDeclStmt", t.p, <<>>)
               [] t.v.Type = "USE" -> Call("parseUseDeclStmt", t.p, <<>>)
               [] OTHER -> Call("parseExpressionStmt", t.p, <<>>)

\* the loop of Parse
\* the dispatch of Call
Call(f, p, a) ==
    CASE f = "peek" -> peek(p)
      [] f = "consume" -> consume(p, a[1])
      [] f = "statementTerminates" -> statementTerminates(p)
      [] f = "consumeStatementTerminator" -> consumeStatementTerminator(p)
      [] f = "parseStmt" -> parseStmt(p)
      [] f = "parseExpr" -> parseExpr(p, a[1])
      [] f = "parseExprTail" -> parseExprTail(p, a[1], a[2])
      [] f = "parseHeadExpr" -> parseHeadExpr(p, a[1])
      [] f = "parseTailExpr" -> parseTailExpr(p, a[1], a[2])
      [] f = "parseTypeExpr" -> parseTypeExpr(p)
      [] f = "parseArrayTypeExpr" -> parseArrayTypeExpr(p, a[1])
      [] f = "parseFuncTypeExpr" -> parseFuncTypeExpr(p)
      [] f = "parseFuncTypeParams" -> parseFuncTypeParams(p, a[1])
      [] f = "parseDeclAssignExpr" -> parseDeclAssignExpr(p, a[1])
      [] f = "parseVarDeclStmt" -> parseVarDeclStmt(p)
      [] f = "parseFuncDeclStmt" -> parseFuncDeclStmt(p)
      [] f = "parseFuncDeclParams" -> parseFuncDeclParams(p, a[1])
      [] f = "parseStructDeclStmt" -> parseStructDeclStmt(p)
      [] f = "parseStructDeclMembers" -> parseStructDeclMembers(p, a[1])
      [] f = "parseIfExpr" -> parseIfExpr(p)
      [] f = "parseIfStmt" -> parseIfStmt(p)
      [] f = "parseForStmt" -> parseForStmt(p)
      [] f = "parseFuncCallExpr" -> parseFuncCallExpr(p, a[1])
      [] f = "parseFuncCallArgs" -> parseFuncCallArgs(p, a[1])
      [] f = "parseStructLiteralExpr" -> parseStructLiteralExpr(p, a[1])
      [] f = "parseStructLiteralMembers" -> parseStructLiteralMembers(p, a[1])
      [] f = "parseStructMemberExpr" -> parseStructMemberExpr(p, a[1])
      [] f = "parseArrayIndexExpr" -> parseArrayIndexExpr(p, a[1])
      [] f = "parseReturnStmt" -> parseReturnStmt(p)
      [] f = "parseExpressionStmt" -> parseExpressionStmt(p)
      [] f = "parseBlockStmt" -> parseBlockStmt(p)
      [] f = "parseBlockStmts" -> parseBlockStmts(p, a[1])
      [] f = "parseBlockExpr" -> parseBlockExpr(p)
      [] f = "parseUseDeclStmt" -> parseUseDeclStmt(p)
      [] f = "parseUseSpecs" -> parseUseSpecs(p, a[1])

RECURSIVE ParseStatements(_, _)
ParseStatements(p, statements) ==
    LET t == Call("peek", p, <<>>)
        s == Call("parseStmt", t.p, <<>>)
    IN  IF p.panicked THEN R(p, statements)
        ELSE IF t.v.Type = "EOF" THEN R(t.p, statements)
        ELSE IF s.p.panicked THEN R(s.p, statements)
        ELSE ParseStatements(Iterated("module", p, s.p), Append(statements, s.v))

\* Parse returns [p |-> the parser at the end (panicked if the parse halted),
\*                v |-> the BlockStmt of the program]
Parse(toks) ==
    LET r == ParseStatements(newParser(toks), <<>>)
    IN  R(r.p, [node |-> "BlockStmt", Statements |-> r.v])

-----------------------------------------------------------------------------
(* The parser object held in the state variables *)

P == [tokens |-> tokens, pos |-> pos, parenStack |-> parenStack,
      inThenBranch |-> inThenBranch, panicked |-> status \in {"panic", "stalled"},
      iterations |-> iterations, stalled |-> status = "stalled"]

Store(q) ==
    /\ tokens' = q.tokens
    /\ pos' = q.pos
    /\ parenStack' = q.parenStack
    /\ inThenBranch' = q.inThenBranch
    /\ status' = IF q.stalled THEN "stalled" ELSE IF q.panicked THEN "panic" ELSE status

\* The kind that the lexer gives to a lexeme: the first pattern that matches,
\* a word being a keyword of reservedKeywords or else an IDENTIFIER.
Identifiers == {"a", "b", "c", "f", "t", "x", "y", "z", "i32", "bool"}

Numbers == {"0", "1", "5"}

TypeOf(lexeme) ==
    CASE lexeme = "\n" -> "EOL"
      [] lexeme \in Numbers -> "NUMBER"
      [] lexeme = ":=" -> "COLON_EQUALS"
      [] lexeme = "==" -> "DOUBLE_EQUALS"
      [] lexeme = "!=" -> "NOT_EQUALS"
      [] lexeme = "<=" -> "LESS_EQUALS"
      [] lexeme = ">=" -> "GREATER_EQUALS"
      [] lexeme = "+=" -> "PLUS_EQUALS"
      [] lexeme = "-=" -> "DASH_EQUALS"
      [] lexeme = "*=" -> "STAR_EQUALS"
      [] lexeme = "/=" -> "SLASH_EQUALS"
      [] lexeme = "%=" -> "PERCENT_EQUALS"
      [] lexeme = "=" -> "EQUALS"
      [] lexeme = "!" -> "NOT"
      [] lexeme = "<" -> "LESS"
      [] lexeme = ">" -> "GREATER"
      [] lexeme = "+" -> "PLUS"
      [] lexeme = "-" -> "DASH"
      [] lexeme = "/" -> "SLASH"
      [] lexeme = "*" -> "STAR"
      [] lexeme = "%" -> "PERCENT"
      [] lexeme = "." -> "DOT"
      [] lexeme = ";" -> "SEMICOLON"
      [] lexeme = ":" -> "COLON"
      [] lexeme = "," -> "COMMA"
      [] lexeme = "[" -> "OPEN_BRACKET"
      [] lexeme = "]" -> "CLOSE_BRACKET"
      [] lexeme = "{" -> "OPEN_CURLY"
      [] lexeme = "}" -> "CLOSE_CURLY"
      [] lexeme = "(" -> "OPEN_PAREN"
      [] lexeme = ")" -> "CLOSE_PAREN"
      [] lexeme = "let" -> "LET"
      [] lexeme = "struct" -> "STRUCT"
      [] lexeme = "true" -> "TRUE"
      [] lexeme = "false" -> "FALSE"
      [] lexeme = "func" -> "FUNC"
      [] lexeme = "if" -> "IF"
      [] lexeme = "or" -> "OR"
      [] lexeme = "and" -> "AND"
      [] lexeme = "then" -> "THEN"
      [] lexeme = "else" -> "ELSE"
      [] lexeme = "for" -> "FOR"
      [] lexeme = "return" -> "RETURN"
      [] lexeme \in Identifiers -> "IDENTIFIER"

\* the token slice of a sequence of lexemes; SrcPos numbers the tokens in
\* source order
TokensOf(lexemes) ==
    [i \in 1..Len(lexemes) |-> Tok(TypeOf(lexemes[i]), lexemes[i], i)]

\* the sequences of length 0..n over the set K
SeqsUpTo(K, n) == UNION {[1..m -> K] : m \in 0..n}

\* Tokenize has not been called
LexIdle ==
    /\ source = <<>>
    /\ lexPos = 0
    /\ lexed = <<>>
    /\ lexStatus = "idle"
    /\ lexError = [msg |-> "", index |-> 0]

\* no module has been resolved
NoResolved ==
    [SymbolTable |-> 0, Errors |-> <<>>, tables |-> <<>>, RootScope |-> 0,
     Scopes |-> <<>>]

\* no pass has been given a module
PassIdle ==
    /\ moduleAst = [node |-> "BlockStmt", Statements |-> <<>>]
    /\ resolved = NoResolved
    /\ fatal = ""

\* Check has not been called
CheckIdle ==
    /\ phase = "idle"
    /\ resolverErrors = <<>>
    /\ checkerErrors = <<>>
    /\ semanticErrors = <<>>
    /\ allErrors = <<>>
    /\ LexIdle
    /\ PassIdle

-----------------------------------------------------------------------------
(* SpecPeek: the token buffer under every sequence of peek and consume     *)
(* calls, with the push of an open curly that parseStructDeclStmt and      *)
(* parseStructLiteralExpr make right after consuming it.                   *)

PeekLexemes == {"\n", "a", ";", "{", "}", "(", ")", "+"}

InitPeek ==
    /\ input \in {TokensOf(ls) : ls \in SeqsUpTo(PeekLexemes, MaxLen)}
    /\ tokens = input
    /\ pos = 0
    /\ parenStack = <<>>
    /\ inThenBranch = FALSE
    /\ status = "running"
    /\ program = <<>>
    /\ iterations = {}
    /\ CheckIdle

PeekCall ==
    /\ status = "running"
    /\ Store(peek(P).p)
    /\ UNCHANGED <<input, program, iterations>>
    /\ UNCHANGED <<checkVars, lexVars, passVars>>

ConsumeCall ==
    /\ status = "running"
    /\ pos <= Len(tokens)
    /\ \E expected \in {{}} \cup {{TypeOf(l)} : l \in PeekLexemes} :
          LET c == consume(P, expected) IN Store(c.p)
    /\ UNCHANGED <<input, program, iterations>>
    /\ UNCHANGED <<checkVars, lexVars, passVars>>

\* p.consume(lexer.OPEN_CURLY); p.parenStack = append(p.parenStack, lexer.OPEN_CURLY)
ConsumePushCurly ==
    /\ status = "running"
    /\ LET c == consume(P, {"OPEN_CURLY"})
           q == pushCurly(c.p)
       IN  Store(q)
    /\ UNCHANGED <<input, program, iterations>>
    /\ UNCHANGED <<checkVars, lexVars, passVars>>

NextPeek == PeekCall \/ ConsumeCall \/ ConsumePushCurly

SpecPeek == InitPeek /\ [][NextPeek]_vars

-----------------------------------------------------------------------------
(* SpecParse: Parse over bounded sets of token slices.  One step is one     *)
(* iteration of the loop of Parse (a whole top-level statement) or its      *)
(* return.                                                                  *)

ParseLexemes == {"a", "=", "-", "==", "\n", ";", "{", "}", "(", ")", "if", "then", "else"}

ShortInputs == SeqsUpTo(ParseLexemes, MaxTokens)

\* the operators of the expression grammar: assignments, logical, equality,
\* comparison, additive, multiplicative
Operators == {"=", "+=", "-=", ":=", "or", "and", "==", "!=", "<", "<=", ">", ">=",
              "+", "-", "*", "/", "%"}

Operands == <<"a", "b", "c", "x">>

\* a op1 b op2 c ... with up to n operators
RECURSIVE OperatorChains(_)
OperatorChains(n) ==
    IF n = 0 THEN {<<Operands[1]>>}
    ELSE OperatorChains(n - 1) \cup
         {c \o <<op, Operands[n + 1]>> :
            c \in {d \in OperatorChains(n - 1) : Len(d) = 2 * n - 1}, op \in Operators}

SimpleStmts == {<<"a">>, <<"let", "x", ":", "t">>, <<"return">>}

Terminators == {<<>>, <<";">>, <<"\n">>}

\* up to n simple statements, each followed by one of the terminators
RECURSIVE StmtLists(_)
StmtLists(n) ==
    IF n = 0 THEN {<<>>}
    ELSE StmtLists(n - 1) \cup
         {l \o s \o t : l \in {m \in StmtLists(n - 1) : m # <<>> \/ n = 1},
                        s \in SimpleStmts, t \in Terminators}

\* statement lists at top level, as a block expression, and as the value of
\* an assignment
BlockInputs ==
    StmtLists(MaxStmts) \cup
    {pre \o <<"{">> \o l \o <<"}">> : pre \in {<<>>, <<"x", "=">>}, l \in StmtLists(MaxStmts)}

\* S ::= x | if c then S | if c then S else S, nested up to depth d
RECURSIVE NestedIfs(_)
NestedIfs(d) ==
    IF d = 0 THEN {<<"x">>}
    ELSE NestedIfs(d - 1) \cup
         {<<"if", "c", "then">> \o s : s \in NestedIfs(d - 1)} \cup
         {<<"if", "c", "then">> \o s1 \o <<"else">> \o s2 :
            s1 \in NestedIfs(d - 1), s2 \in NestedIfs(d - 1)}

\* s, s without one of its tokens, and s with an EOL or a semicolon inserted
Edits(s) ==
    {s} \cup {RemoveAt(s, i) : i \in 1..Len(s)} \cup
    {SubSeq(s, 1, i) \o <<l>> \o SubSeq(s, i + 1, Len(s)) : i \in 0..Len(s), l \in {"\n", ";"}}

IfInputs ==
    UNION {Edits(pre \o s) : pre \in {<<>>, <<"y", "=">>}, s \in NestedIfs(MaxIfDepth)}

\* programs of the parser's tests and of the language description
Corpus ==
    {<<"if", "x", "<", "5", "then", "f", "(", ")", "else", "if", "x", ">", "1", "then", "1", "else", "0">>,
     <<"if", "a", "then", "x", "=", "if", "b", "then", "y", "else", "z">>,
     <<"y", "=", "if", "x", "<", "5", "then", "{", "0", "}", "else", "{", "5", "}">>,
     <<"if", "x", ">", "0", "then", "{", "\n", "a", "(", ")", "\n", "5", "\n", "}", "else", "{", "\n", "b", "(", ")", "\n", "1", "\n", "}">>,
     <<"func", "f", "(", "a", ":", "t", ")", ":", "t", "{", "\n", "return", "a", "\n", "}">>,
     <<"struct", "t", "{", "\n", "a", ":", "t", ",", "\n", "b", ":", "t", ",", "\n", "}">>,
     <<"x", "=", "t", "{", "a", ":", "1", ",", "}">>,
     <<"for", "(", "let", "x", ":", "t", "=", "0", ";", "x", "<", "5", ";", "x", "+=", "1", ")", "{", "\n", "f", "(", ")", "\n", "x", "*", "5", "\n", "}">>,
     <<"let", "f", ":", "(", "func", "(", ")", ":", "t", "[", "]", ")", "[", "]">>,
     <<"let", "x", ":", "t", "=", "5", "\n", "let", "y", ":", "t", "=", "1", "\n", "x", "+", "y">>,
     <<"{", "\n", "let", "a", ":", "t", "=", "5", "\n", "a", "+", "1", ";", "\n", "}">>,
     <<"f", "(", "\n", "1", ",", "\n", "5", "\n", ")">>,
     <<"x", ".", "a", "[", "0", "]", "=", "-", "1">>,
     <<"let", "f", ":", "func", "(", "a", ":", "t", ",", "\n", "t", ",", "b", ")", ":", "t">>,
     <<"x", "=", "a", "+", "1", "\n", "\n", "{", "\n", "f", "(", "x", ")", "\n", "}">>}

\* use declarations, whole and cut short; the USE token is built here, the
\* lexers of the repository having no pattern for it
UseInputs ==
    LET specs == <<"{", "\n", "a", ":", "b", ",", "\n", "c", ":", "x", ",", "\n", "}", "\n", "a">>
        program1 ==
            <<"{", "a", ":", "b", ",", "}",
              "struct", "t", "{", "a", ":", "t", ",", "}",
              "func", "f", "(", "a", ":", "t", ")", "{", "\n",
              "let", "c", ":", "func", "(", "t", ",", ")", "=", "f", "\n",
              "x", "=", "t", "{", "a", ":", "1", ",", "}", "\n",
              "f", "(", "x", "+", "1", ")", "\n", "}">>
    IN  {<<Tok("USE", "use", 0)>> \o TokensOf(SubSeq(specs, 1, n)) : n \in 0..Len(specs)}
        \cup {<<Tok("USE", "use", 0)>> \o TokensOf(program1)}

ParseInputs == ShortInputs \cup OperatorChains(MaxOps) \cup BlockInputs \cup IfInputs \cup Corpus

InitParse ==
    /\ input \in {TokensOf(ls) : ls \in ParseInputs} \cup UseInputs
    /\ tokens = input
    /\ pos = 0
    /\ parenStack = <<>>
    /\ inThenBranch = FALSE
    /\ status = "running"
    /\ program = <<>>
    /\ iterations = {}
    /\ CheckIdle

\* one iteration of the loop of Parse: p.peek().Type != lexer.EOF, then
\* program.Statements = append(program.Statements, p.parseStmt())
ParseStatement ==
    /\ status = "running"
    /\ LET t == Call("peek", P, <<>>)
           s == Call("parseStmt", t.p, <<>>)
           q == Iterated("module", P, s.p)
       IN  /\ t.v.Type # "EOF"
           /\ Store(q)
           /\ iterations' = q.iterations
           /\ program' = IF q.panicked THEN program ELSE Append(program, s.v)
    /\ UNCHANGED input
    /\ UNCHANGED <<checkVars, lexVars, passVars>>

\* the loop of Parse ends at EOF and Parse returns the program
ParseReturn ==
    /\ status = "running"
    /\ LET t == Call("peek", P, <<>>)
       IN  /\ t.v.Type = "EOF"
           /\ tokens' = t.p.tokens
           /\ iterations' = t.p.iterations
    /\ status' = "returned"
    /\ UNCHANGED <<input, pos, parenStack, inThenBranch, program>>
    /\ UNCHANGED <<checkVars, lexVars, passVars>>

NextParse == ParseStatement \/ ParseReturn

SpecParse == InitParse /\ [][NextParse]_vars

Spec == SpecParse

-----------------------------------------------------------------------------
(* SpecCheck: the driver Check of the semantic passes.  A pass is a step    *)
(* that yields the list of errors it reports for the module; an error is    *)
(* the record of the prefix that the pass's Err puts before the message,    *)
(* and the message.                                                         *)

Messages == {"m1", "m2", "m3"}

\* the error lists that the pass with the given prefix can report
ErrorLists(kind) ==
    {[i \in 1..Len(ms) |-> [kind |-> kind, msg |-> ms[i]]] : ms \in SeqsUpTo(Messages, MaxErrors)}

\* Check with the third pass run whatever the type checker reported
SemanticsGateOpen(tcErrors) == TRUE

\* if len(resolved.Errors) == 0
CheckerGate(resolvedErrors) == Len(resolvedErrors) = 0

\* if len(tc.Errors) == 0
SemanticsGate(tcErrors) == Len(tcErrors) = 0

InitCheck ==
    /\ input = <<>>
    /\ tokens = <<>>
    /\ pos = 0
    /\ parenStack = <<>>
    /\ inThenBranch = FALSE
    /\ status = "returned"
    /\ program = <<>>
    /\ iterations = {}
    /\ phase = "called"
    /\ resolverErrors = <<>>
    /\ checkerErrors = <<>>
    /\ semanticErrors = <<>>
    /\ allErrors = <<>>
    /\ LexIdle
    /\ PassIdle

\* resolved := Resolve(module); allErrors := resolved.Errors
RunResolver ==
    /\ phase = "called"
    /\ \E errs \in ErrorLists("Resolve Error") :
          /\ resolverErrors' = errs
          /\ allErrors' = errs
    /\ phase' = "resolved"
    /\ UNCHANGED <<checkerErrors, semanticErrors>>
    /\ UNCHANGED <<parserVars, lexVars, passVars>>

\* tc.CheckStmt(stmt) for the statements of the module;
\* allErrors = append(allErrors, tc.Errors...).  A Check method that calls
\* Equals on a nil Type panics, the nil being the result of a Check method
\* that has reported an error: the loop is left with the errors tc.Errors
\* holds by then, nothing is appended to allErrors and Check does not return.
RunTypeChecker ==
    /\ phase = "resolved"
    /\ CheckerGate(resolverErrors)
    /\ \E errs \in ErrorLists("Type Error"), panicked \in BOOLEAN :
          /\ checkerErrors' = errs
          /\ IF panicked
             THEN /\ Len(errs) > 0
                  /\ fatal' = "invalid memory address or nil pointer dereference"
                  /\ phase' = "panicked"
                  /\ allErrors' = allErrors
             ELSE /\ fatal' = fatal
                  /\ phase' = "checked"
                  /\ allErrors' = allErrors \o errs
    /\ UNCHANGED <<resolverErrors, semanticErrors, moduleAst, resolved>>
    /\ UNCHANGED <<parserVars, lexVars>>

\* semanticErrors := AnalyzeSemantics(module, resolved.RootScope);
\* allErrors = append(allErrors, semanticErrors...)
RunSemanticAnalysis ==
    /\ phase = "checked"
    /\ SemanticsGate(checkerErrors)
    /\ \E errs \in ErrorLists("Semantic Error") :
          /\ semanticErrors' = errs
          /\ allErrors' = allErrors \o errs
    /\ phase' = "analyzed"
    /\ UNCHANGED <<resolverErrors, checkerErrors>>
    /\ UNCHANGED <<parserVars, lexVars, passVars>>

\* return allErrors
CheckReturn ==
    /\ \/ phase = "resolved" /\ ~CheckerGate(resolverErrors)
       \/ phase = "checked" /\ ~SemanticsGate(checkerErrors)
       \/ phase = "analyzed"
    /\ phase' = "returned"
    /\ UNCHANGED <<resolverErrors, checkerErrors, semanticErrors, allErrors>>
    /\ UNCHANGED <<parserVars, lexVars, passVars>>

NextCheck == RunResolver \/ RunTypeChecker \/ RunSemanticAnalysis \/ CheckReturn

SpecCheck == InitCheck /\ [][NextCheck]_vars

-----------------------------------------------------------------------------
(* Claims about the token buffer *)

\* the token of the input that the buffer token t stands for
Origin(t) == input[t.SrcPos]

\* t is a SEMICOLON that peek wrote in place of an EOL
Inferred(t) == t.Type = "SEMICOLON" /\ Origin(t).Type = "EOL"

\* the EOL at position j of the input is no longer in the buffer
Deleted(j) == \A i \in 1..Len(tokens) : tokens[i].SrcPos # j

AtEOL == status = "running" /\ currentToken(P).Type = "EOL"

SemicolonConditions ==
    /\ parenStack = <<>>
    /\ prevToken(P).Type \in beforeSemicolon
    /\ nextToken(P).Type \in afterSemicolon
    /\ nextToken(P).Type # "EOF"

RewrittenInPlace ==
    /\ Len(tokens') = Len(tokens)
    /\ tokens' = [tokens EXCEPT ![pos + 1] = Tok("SEMICOLON", ";", tokens[pos + 1].SrcPos)]

DeletedAndReevaluated ==
    /\ Len(tokens') < Len(tokens)
    /\ \A i \in 1..Len(tokens') : tokens'[i].SrcPos # tokens[pos + 1].SrcPos
    /\ tokens' = peek([P EXCEPT !.tokens = RemoveAt(tokens, pos + 1)]).p.tokens

\* C1: every call that peeks at an EOL not followed by a closing curly
\* rewrites it in place to a SEMICOLON iff the bracket stack is empty, the
\* previous kind is in beforeSemicolon, the next kind is in afterSemicolon and
\* the next token is not end-of-file; otherwise it deletes the EOL and
\* re-evaluates the new current token.
C1_EOLRewrittenIffConditions ==
    [][(AtEOL /\ nextToken(P).Type # "CLOSE_CURLY") =>
          /\ RewrittenInPlace <=> SemicolonConditions
          /\ DeletedAndReevaluated <=> ~SemicolonConditions]_vars

\* both outcomes have happened: one EOL of the input is now a SEMICOLON and
\* another one, not followed by a closing curly, is gone
C1_Witness ==
    /\ \E i \in 1..Len(tokens) : Inferred(tokens[i])
    /\ \E j \in 1..Len(input) :
          /\ input[j].Type = "EOL"
          /\ Deleted(j)
          /\ j < Len(input)
          /\ input[j + 1].Type # "CLOSE_CURLY"

\* C2: an EOL followed by a closing curly is deleted whatever the previous
\* token and the bracket stack are, and no SEMICOLON that stands directly
\* before a CLOSE_CURLY in the buffer was inferred from an EOL.
C2_EOLBeforeClosingCurlyDeleted ==
    /\ [][(AtEOL /\ nextToken(P).Type = "CLOSE_CURLY") => DeletedAndReevaluated]_vars
    /\ [](\A i \in 1..(Len(tokens) - 1) :
            (tokens[i].Type = "SEMICOLON" /\ tokens[i + 1].Type = "CLOSE_CURLY")
                => Origin(tokens[i]).Type = "SEMICOLON")

\* an EOL between an identifier and a closing curly was deleted outside any
\* bracket, and that curly has been consumed
C2_Witness ==
    \E j \in 2..(Len(input) - 1) :
        /\ input[j - 1].Type = "IDENTIFIER"
        /\ input[j].Type = "EOL"
        /\ input[j + 1].Type = "CLOSE_CURLY"
        /\ Deleted(j)
        /\ status = "running"
        /\ \E i \in 1..pos : tokens[i].SrcPos = j + 1 /\ i > 1 /\ tokens[i - 1].SrcPos = j - 1

KindsAndLexemes(s) == [i \in 1..Len(s) |-> <<s[i].Type, s[i].Value>>]

NotEOL(t) == t.Type # "EOL"

NotLayout(t) == t.Type # "EOL" /\ ~Inferred(t)

\* C3 as stated: the non-EOL tokens of the buffer are the non-EOL tokens of
\* the input.
C3_NonEOLTokensEqual ==
    KindsAndLexemes(SelectSeq(tokens, NotEOL)) = KindsAndLexemes(SelectSeq(input, NotEOL))

\* C3 amended: the tokens of the buffer that are neither an EOL nor a
\* SEMICOLON written by peek in place of an EOL are the non-EOL tokens of the
\* input, in order; every buffer token is the input token of its position or
\* the SEMICOLON that replaces the EOL of that position.
C3_SemanticTokensPreserved ==
    /\ SelectSeq(tokens, NotLayout) = SelectSeq(input, NotEOL)
    /\ \A i \in 1..Len(tokens) :
          \/ tokens[i] = Origin(tokens[i])
          \/ /\ Origin(tokens[i]).Type = "EOL"
             /\ tokens[i] = Tok("SEMICOLON", ";", tokens[i].SrcPos)
    /\ \A i \in 1..(Len(tokens) - 1) : tokens[i].SrcPos < tokens[i + 1].SrcPos

\* an EOL was rewritten and another deleted while other tokens were consumed
C3_Witness ==
    /\ Len(tokens) < Len(input)
    /\ \E i \in 1..Len(tokens) : Inferred(tokens[i])
    /\ pos >= 2

-----------------------------------------------------------------------------
(* Claims about Parse *)

\* the children of an AST node, in source order
Children(n) ==
    CASE n.node = "UnaryExpr" -> <<n.Rhs>>
      [] n.node = "GroupExpr" -> <<n.Expr>>
      [] n.node = "BinaryExpr" -> <<n.Lhs, n.Rhs>>
      [] n.node = "AssignExpr" -> <<n.Assigne, n.AssignedValue>>
      [] n.node = "VarDeclAssignExpr" -> <<n.AssignedValue>>
      [] n.node = "IfExpr" -> <<n.Cond, n.Then, n.Else>>
      [] n.node = "BlockExpr" -> n.Statements \o <<n.ResultExpr>>
      [] n.node = "FuncCallExpr" -> <<n.Func>> \o n.Args
      [] n.node = "StructLiteralExpr" -> <<n.Struct>> \o n.Members
      [] n.node = "MemberAssignExpr" -> <<n.Value>>
      [] n.node = "StructMemberExpr" -> <<n.Struct, n.Member>>
      [] n.node = "ArrayIndexExpr" -> <<n.Array, n.Index>>
      [] n.node = "VarDeclStmt" -> <<n.InitVal>>
      [] n.node = "FuncDeclStmt" -> <<n.Body>>
      [] n.node = "IfStmt" -> <<n.Cond, n.Then, n.Else>>
      [] n.node = "ForStmt" -> <<n.Init, n.Cond, n.Iter, n.Body>>
      [] n.node = "ReturnStmt" -> <<n.Expr>>
      [] n.node = "ExpressionStmt" -> <<n.Expr>>
      [] n.node = "BlockStmt" -> n.Statements
      [] n.node = "UseDeclStmt" -> n.UseSpecs
      [] OTHER -> <<>>

\* the nodes of the tree n in pre-order
RECURSIVE Flatten(_), FlattenAll(_)
Flatten(n) == <<n>> \o FlattenAll(Children(n))
FlattenAll(ns) == IF ns = <<>> THEN <<>> ELSE Flatten(Head(ns)) \o FlattenAll(Tail(ns))

\* the nodes of the program parsed so far
Nodes == FlattenAll(program)

CountNodes(kind) == Len(SelectSeq(Nodes, LAMBDA n : n.node = kind))

CountTokens(kind) == Len(SelectSeq(input, LAMBDA t : t.Type = kind))

Lexemes == [i \in 1..Len(input) |-> input[i].Value]

\* C4: a block whose last statement is followed by an explicit semicolon has
\* the unit expression as its result.  Stated for a program that is one block
\* expression whose closing curly directly follows a semicolon of the source.
C4_ExplicitSemicolonSuppressesBlockValue ==
    (/\ status = "returned"
     /\ Len(input) >= 3
     /\ input[1].Type = "OPEN_CURLY"
     /\ input[Len(input)].Type = "CLOSE_CURLY"
     /\ input[Len(input) - 1].Type = "SEMICOLON"
     /\ Len(program) = 1
     /\ program[1].node = "ExpressionStmt"
     /\ program[1].Expr.node = "BlockExpr")
        => program[1].Expr.ResultExpr = UnitExpr

\* C5: ExplicitSemicolon is true only for a semicolon written in the source:
\* a program without any semicolon token has no expression-statement with
\* the flag set.
C5_ExplicitOnlyIfWrittenInSource ==
    (status = "returned" /\ CountTokens("SEMICOLON") = 0)
        => \A i \in 1..Len(Nodes) :
              Nodes[i].node = "ExpressionStmt" => ~Nodes[i].ExplicitSemicolon

\* C6: `a = b = c` (and likewise with += and -=) parses to
\* AssignExpr(a, =, AssignExpr(b, =, c)).
C6_AssignmentRightAssociative ==
    (/\ status = "returned"
     /\ Len(input) = 5
     /\ input[1].Type = "IDENTIFIER" /\ input[3].Type = "IDENTIFIER" /\ input[5].Type = "IDENTIFIER"
     /\ input[2].Type \in {"EQUALS", "PLUS_EQUALS", "DASH_EQUALS"}
     /\ input[4].Type \in {"EQUALS", "PLUS_EQUALS", "DASH_EQUALS"})
        => /\ Len(program) = 1
           /\ program[1].Expr.node = "AssignExpr"
           /\ program[1].Expr.Assigne = [node |-> "IdentExpr", Value |-> input[1].Value]
           /\ program[1].Expr.Operator = input[2]
           /\ program[1].Expr.AssignedValue.node = "AssignExpr"

\* C7: an operator to which tailPrecedence gives a left binding power above
\* zero is accepted in tail position: `a op b` parses to one expression
\* statement that holds both operands, without a fatal error.
C7_EveryTailOperatorAccepted ==
    (/\ Len(input) = 3
     /\ input[1].Type = "IDENTIFIER" /\ input[3].Type = "IDENTIFIER"
     /\ ~tailPrecedence(input[2].Type).panics
     /\ tailPrecedence(input[2].Type).lbp > 0
     /\ input[2].Type \notin {"OPEN_PAREN", "OPEN_CURLY", "OPEN_BRACKET", "DOT"})
        => /\ status # "panic"
           /\ status = "returned" =>
                /\ Len(program) = 1
                /\ program[1].Expr.node \in {"BinaryExpr", "AssignExpr", "VarDeclAssignExpr"}

\* C8: an `if` at statement position yields an IfStmt, an `if` in head
\* position of an expression yields an IfExpr with both branches; a parse
\* returns only if every `if` was followed by its `then`, and every `else`
\* of the source belongs to an IfExpr or to an IfStmt with an else-branch.
C8_IfStatementAndIfExpression ==
    status = "returned" =>
        /\ (Len(input) > 0 /\ input[1].Type = "IF") => program[1].node = "IfStmt"
        /\ \A i \in 1..Len(Nodes) :
              /\ Nodes[i].node = "IfExpr" =>
                    Nodes[i].Then.node # "nil" /\ Nodes[i].Else.node # "nil"
              /\ Nodes[i].node = "IfStmt" => Nodes[i].Then.node # "nil"
        /\ CountTokens("IF") = CountNodes("IfStmt") + CountNodes("IfExpr")
        /\ CountTokens("THEN") = CountTokens("IF")
        /\ CountTokens("ELSE") =
              CountNodes("IfExpr") +
              Len(SelectSeq(Nodes, LAMBDA n : n.node = "IfStmt" /\ n.Else.node # "nil"))

\* an if-statement without else-branch whose then-branch holds an
\* if-expression has been parsed
C8_Witness ==
    /\ status = "returned"
    /\ Len(program) = 1
    /\ program[1].node = "IfStmt"
    /\ program[1].Else.node = "nil"
    /\ CountNodes("IfExpr") = 1

\* C9: inside the brace-less then-branch of an if-statement `else` terminates
\* a statement at any nesting depth, so every program of the grammar
\* S ::= x | if c then S | if c then S else S parses without a fatal error.
C9_ElseTerminatesAtAnyDepth ==
    Lexemes \in NestedIfs(MaxIfDepth) => status # "panic"

-----------------------------------------------------------------------------
(* Claims about Check *)

PassRank(kind) ==
    CASE kind = "Resolve Error" -> 1
      [] kind = "Type Error" -> 2
      [] kind = "Semantic Error" -> 3

PhaseRank(ph) ==
    CASE ph = "called" -> 0
      [] ph = "resolved" -> 1
      [] ph = "checked" -> 2
      [] ph = "analyzed" -> 3
      [] ph = "returned" -> 4
      [] ph = "panicked" -> 4

HasErrorOf(kind) == \E i \in 1..Len(allErrors) : allErrors[i].kind = kind

\* C10: the passes run in the order resolver, type checker, flow analyzer;
\* the list holds type errors only if the resolver reported none, holds
\* semantic errors only if the resolver and the type checker reported none,
\* and is the concatenation of the lists of the passes in pass order.  A call
\* that the type checker's panic has ended returns no list.
C10_PassesGatedAndConcatenated ==
    /\ [][phase' # phase => PhaseRank(phase') > PhaseRank(phase)]_vars
    /\ [](/\ HasErrorOf("Type Error") => resolverErrors = <<>>
          /\ HasErrorOf("Semantic Error") => resolverErrors = <<>> /\ checkerErrors = <<>>
          /\ phase # "panicked" => allErrors = resolverErrors \o checkerErrors \o semanticErrors
          /\ \A i \in 1..Len(allErrors) : \A j \in i..Len(allErrors) :
                PassRank(allErrors[i].kind) <= PassRank(allErrors[j].kind)
          /\ \A i \in 1..Len(resolverErrors) : resolverErrors[i].kind = "Resolve Error"
          /\ \A i \in 1..Len(checkerErrors) : checkerErrors[i].kind = "Type Error"
          /\ \A i \in 1..Len(semanticErrors) : semanticErrors[i].kind = "Semantic Error")

\* Check has returned the errors of the type checker without running the
\* flow analyzer
C10_Witness ==
    /\ phase = "returned"
    /\ resolverErrors = <<>>
    /\ Len(checkerErrors) > 0
    /\ allErrors = checkerErrors

-----------------------------------------------------------------------------
(* The lexer.  A source text is a sequence of characters, each a string of  *)
(* length one.  A token of the lexer is [Type, Value], Value being the      *)
(* matched text as a sequence of characters.  Go indexes the text from 0:   *)
(* the remaining text at position pos is SubSeq(src, pos + 1, Len(src)).    *)

\* SpecLex: length of the source texts
MaxSrcLen == 4

\* SpecLex: the characters of the source texts
LexChars == {"0", "1", "_", "x", "b", " ", "\n", "\r", "#"}

Lower == {"a", "b", "c", "d", "e", "f", "g", "h", "i", "j", "k", "l", "m",
          "n", "o", "p", "q", "r", "s", "t", "u", "v", "w", "x", "y", "z"}
Upper == {"A", "B", "C", "D", "E", "F", "G", "H", "I", "J", "K", "L", "M",
          "N", "O", "P", "Q", "R", "S", "T", "U", "V", "W", "X", "Y", "Z"}
Digits == {"0", "1", "2", "3", "4", "5", "6", "7", "8", "9"}
HexDigits == Digits \cup {"a", "b", "c", "d", "e", "f", "A", "B", "C", "D", "E", "F"}
BinDigits == {"0", "1"}
\* \s
Space == {"\t", "\n", "\f", "\r", " "}

LexToken(type, value) == [Type |-> type, Value |-> value]

\* Token{}
ZeroLexToken == LexToken("EOF", <<>>)

\* the patterns in the order in which Tokenize tries them
tokenPatterns ==
    <<"EOL", "WHITESPACE", "WORD", "COMMENT", "NUMBER", "STRING",
      "COLON_EQUALS", "DOUBLE_EQUALS", "NOT_EQUALS", "LESS_EQUALS",
      "GREATER_EQUALS", "PLUS_EQUALS", "DASH_EQUALS", "STAR_EQUALS",
      "SLASH_EQUALS", "PERCENT_EQUALS",
      "EQUALS", "NOT", "PIPE", "AMPERSAND", "CHEVRON", "LESS", "GREATER",
      "PLUS", "DASH", "UNDERSCORE", "SLASH", "STAR", "PERCENT", "DOT",
      "SEMICOLON", "COLON", "COMMA", "OPEN_BRACKET", "CLOSE_BRACKET",
      "OPEN_CURLY", "CLOSE_CURLY", "OPEN_PAREN", "CLOSE_PAREN">>

\* the text of the patterns that match one fixed text
literalPattern(tokenType) ==
    CASE tokenType = "COLON_EQUALS" -> <<":", "=">>
      [] tokenType = "DOUBLE_EQUALS" -> <<"=", "=">>
      [] tokenType = "NOT_EQUALS" -> <<"!", "=">>
      [] tokenType = "LESS_EQUALS" -> <<"<", "=">>
      [] tokenType = "GREATER_EQUALS" -> <<">", "=">>
      [] tokenType = "PLUS_EQUALS" -> <<"+", "=">>
      [] tokenType = "DASH_EQUALS" -> <<"-", "=">>
      [] tokenType = "STAR_EQUALS" -> <<"*", "=">>
      [] tokenType = "SLASH_EQUALS" -> <<"/", "=">>
      [] tokenType = "PERCENT_EQUALS" -> <<"%", "=">>
      [] tokenType = "EQUALS" -> <<"=">>
      [] tokenType = "NOT" -> <<"!">>
      [] tokenType = "PIPE" -> <<"|">>
      [] tokenType = "AMPERSAND" -> <<"&">>
      [] tokenType = "CHEVRON" -> <<"^">>
      [] tokenType = "LESS" -> <<"<">>
      [] tokenType = "GREATER" -> <<">">>
      [] tokenType = "PLUS" -> <<"+">>
      [] tokenType = "DASH" -> <<"-">>
      [] tokenType = "UNDERSCORE" -> <<"_">>
      [] tokenType = "SLASH" -> <<"/">>
      [] tokenType = "STAR" -> <<"*">>
      [] tokenType = "PERCENT" -> <<"%">>
      [] tokenType = "DOT" -> <<".">>
      [] tokenType = "SEMICOLON" -> <<";">>
      [] tokenType = "COLON" -> <<":">>
      [] tokenType = "COMMA" -> <<",">>
      [] tokenType = "OPEN_BRACKET" -> <<"[">>
      [] tokenType = "CLOSE_BRACKET" -> <<"]">>
      [] tokenType = "OPEN_CURLY" -> <<"{">>
      [] tokenType = "CLOSE_CURLY" -> <<"}">>
      [] tokenType = "OPEN_PAREN" -> <<"(">>
      [] tokenType = "CLOSE_PAREN" -> <<")">>

\* the keywords as character sequences
reservedKeywords ==
    {[text |-> <<"l", "e", "t">>, type |-> "LET"],
     [text |-> <<"s", "t", "r", "u", "c", "t">>, type |-> "STRUCT"],
     [text |-> <<"t", "r", "u", "e">>, type |-> "TRUE"],
     [text |-> <<"f", "a", "l", "s", "e">>, type |-> "FALSE"],
     [text |-> <<"f", "u", "n", "c">>, type |-> "FUNC"],
     [text |-> <<"i", "f">>, type |-> "IF"],
     [text |-> <<"o", "r">>, type |-> "OR"],
     [text |-> <<"a", "n", "d">>, type |-> "AND"],
     [text |-> <<"t", "h", "e", "n">>, type |-> "THEN"],
     [text |-> <<"e", "l", "s", "e">>, type |-> "ELSE"],
     [text |-> <<"f", "o", "r">>, type |-> "FOR"],
     [text |-> <<"r", "e", "t", "u", "r", "n">>, type |-> "RETURN"]}

\* [K]* from index i of s: the index of the last character of the run
RECURSIVE RunEnd(_, _, _)
RunEnd(s, i, K) ==
    IF i <= Len(s) /\ s[i] \in K THEN RunEnd(s, i + 1, K) ELSE i - 1

\* .* from index i of s (the dot matches every character but \n)
RECURSIVE LineEnd(_, _)
LineEnd(s, i) ==
    IF i <= Len(s) /\ s[i] # "\n" THEN LineEnd(s, i + 1) ELSE i - 1

\* (_?[D])* after index e of s: the index of the last character matched
RECURSIVE GroupsEnd(_, _, _)
GroupsEnd(s, e, D) ==
    IF e + 1 <= Len(s) /\ s[e + 1] \in D
    THEN GroupsEnd(s, e + 1, D)
    ELSE IF e + 2 <= Len(s) /\ s[e + 1] = "_" /\ s[e + 2] \in D
         THEN GroupsEnd(s, e + 2, D)
         ELSE e

\* [D](_?[D])* from index i of s: the index of the last character matched,
\* 0 if there is no match
DigitsEnd(s, i, D) ==
    IF i <= Len(s) /\ s[i] \in D THEN GroupsEnd(s, i, D) ELSE 0

\* [^"]*" from index i of s: the index of the closing quote, 0 if none
RECURSIVE QuoteEnd(_, _)
QuoteEnd(s, i) ==
    IF i > Len(s) THEN 0
    ELSE IF s[i] = "\"" THEN i
    ELSE QuoteEnd(s, i + 1)

\* 0[xX][0-9a-fA-F](_?[0-9a-fA-F])* at the start of s
hexLength(s) ==
    IF Len(s) >= 2 /\ s[1] = "0" /\ s[2] \in {"x", "X"}
    THEN DigitsEnd(s, 3, HexDigits) ELSE 0

\* 0[bB][01](_?[01])* at the start of s
binLength(s) ==
    IF Len(s) >= 2 /\ s[1] = "0" /\ s[2] \in {"b", "B"}
    THEN DigitsEnd(s, 3, BinDigits) ELSE 0

\* (\.([0-9](_?[0-9])*)?)? after index e of s
fractionEnd(s, e) ==
    IF e + 1 <= Len(s) /\ s[e + 1] = "."
    THEN IF DigitsEnd(s, e + 2, Digits) # 0 THEN DigitsEnd(s, e + 2, Digits) ELSE e + 1
    ELSE e

\* ([eE][+-]?[0-9](_?[0-9])*)? after index e of s
exponentEnd(s, e) ==
    IF e + 1 <= Len(s) /\ s[e + 1] \in {"e", "E"}
    THEN IF e + 2 <= Len(s) /\ s[e + 2] \in {"+", "-"}
         THEN IF DigitsEnd(s, e + 3, Digits) # 0 THEN DigitsEnd(s, e + 3, Digits) ELSE e
         ELSE IF DigitsEnd(s, e + 2, Digits) # 0 THEN DigitsEnd(s, e + 2, Digits) ELSE e
    ELSE e

\* [0-9](_?[0-9])*(\.([0-9](_?[0-9])*)?)?([eE][+-]?[0-9](_?[0-9])*)? at the
\* start of s
decimalLength(s) ==
    IF DigitsEnd(s, 1, Digits) = 0 THEN 0
    ELSE exponentEnd(s, fractionEnd(s, DigitsEnd(s, 1, Digits)))

\* the NUMBER pattern at the start of s: the first of the three alternatives
\* (hexadecimal, binary, decimal) that matches
numberLength(s) ==
    IF hexLength(s) # 0 THEN hexLength(s)
    ELSE IF binLength(s) # 0 THEN binLength(s)
    ELSE decimalLength(s)

IsPrefix(t, s) == Len(t) <= Len(s) /\ SubSeq(s, 1, Len(t)) = t

\* the length of the match of the pattern that begins at the first character
\* of the non-empty text s, 0 if the pattern does not match there
anchoredLength(tokenType, s) ==
    CASE tokenType = "EOL" ->
            IF s[1] = "\n" THEN 1
            ELSE IF s[1] = "\r" /\ Len(s) >= 2 /\ s[2] = "\n" THEN 2
            ELSE IF s[1] = "\r" THEN 1
            ELSE 0
      [] tokenType = "WHITESPACE" -> RunEnd(s, 1, Space)
      [] tokenType = "WORD" ->
            IF s[1] \in Lower \cup Upper \cup {"_"}
            THEN RunEnd(s, 2, Lower \cup Upper \cup Digits \cup {"_"})
            ELSE 0
      [] tokenType = "COMMENT" ->
            IF Len(s) >= 2 /\ s[1] = "/" /\ s[2] = "/" THEN LineEnd(s, 3) ELSE 0
      [] tokenType = "NUMBER" -> numberLength(s)
      [] tokenType = "STRING" -> IF s[1] = "\"" THEN QuoteEnd(s, 2) ELSE 0
      [] OTHER -> IF IsPrefix(literalPattern(tokenType), s)
                  THEN Len(literalPattern(tokenType)) ELSE 0

\* the index (from 1) of the first \r of s, 0 if there is none
RECURSIVE FirstCR(_, _)
FirstCR(s, i) ==
    IF i > Len(s) THEN 0
    ELSE IF s[i] = "\r" THEN i
    ELSE FirstCR(s, i + 1)

NoMatchRange == [found |-> FALSE, from |-> 0, to |-> 0]

\* re.FindStringIndex(src): the leftmost match as Go offsets [from, to).
\* Every pattern begins with ^ and matches at offset 0 only, but for EOL,
\* ^\r?\n|\r, whose second alternative is not under the ^ and matches the
\* first \r anywhere in the text.
FindStringIndex(tokenType, s) ==
    IF anchoredLength(tokenType, s) # 0
    THEN [found |-> TRUE, from |-> 0, to |-> anchoredLength(tokenType, s)]
    ELSE IF tokenType = "EOL" /\ FirstCR(s, 1) # 0
         THEN [found |-> TRUE, from |-> FirstCR(s, 1) - 1, to |-> FirstCR(s, 1)]
         ELSE NoMatchRange

NoLexError == [msg |-> "", index |-> 0]

\* the result of tryMatchPattern: the length, the token, and the panic
Matched(length, token) == [length |-> length, token |-> token, error |-> NoLexError]

MatchPanic(msg, index) ==
    [length |-> 0, token |-> ZeroLexToken, error |-> [msg |-> msg, index |-> index]]

\* the type of a WORD: its keyword, or IDENTIFIER
wordType(match) ==
    IF \E k \in reservedKeywords : k.text = match
    THEN (CHOOSE k \in reservedKeywords : k.text = match).type
    ELSE "IDENTIFIER"

\* tryMatchPattern from the match range on
tokenOfMatch(s, tokenType, range) ==
    LET matchRange == range
        length == matchRange.to
        match == SubSeq(s, 1, length)
    IN  IF ~matchRange.found THEN Matched(0, ZeroLexToken)
        ELSE IF matchRange.from > 0
             THEN MatchPanic("regex matched at non-zero index", matchRange.from)
        ELSE IF tokenType # "WORD" THEN Matched(length, LexToken(tokenType, match))
        ELSE Matched(length, LexToken(wordType(match), match))

tryMatchPattern(s, tokenType) ==
    tokenOfMatch(s, tokenType, FindStringIndex(tokenType, s))

\* the inner loop of Tokenize from the i-th pattern on: the first pattern
\* whose length is not 0, unless a pattern before it panics
RECURSIVE matchPatterns(_, _)
\* the step of the inner loop after the i-th pattern gave the result m
matchedOrNext(s, i, result) ==
    LET m == result
    IN  IF m.error # NoLexError \/ m.length # 0 THEN m
        ELSE matchPatterns(s, i + 1)

matchPatterns(s, i) ==
    IF i > Len(tokenPatterns) THEN Matched(0, ZeroLexToken)
    ELSE matchedOrNext(s, i, tryMatchPattern(s, tokenPatterns[i]))

\* one iteration of the main loop of Tokenize on the lexer state
\* [pos, tokens, error]
\* the iteration after the inner loop gave the result m
afterPatterns(l, result) ==
    LET m == result
    IN  IF m.error # NoLexError THEN [l EXCEPT !.error = m.error]
        ELSE IF m.length = 0
             THEN [l EXCEPT !.error = [msg |-> "failed to tokenize source at", index |-> l.pos]]
             ELSE [pos |-> l.pos + m.length,
                   tokens |-> IF m.token.Type # "WHITESPACE"
                              THEN Append(l.tokens, m.token) ELSE l.tokens,
                   error |-> NoLexError]

tokenizeIteration(src, l) ==
    afterPatterns(l, matchPatterns(SubSeq(src, l.pos + 1, Len(src)), 1))

\* Tokenize(src): the lexer state when the loop ends or panics
RECURSIVE tokenizeLoop(_, _)
tokenizeLoop(src, l) ==
    IF l.error # NoLexError \/ l.pos >= Len(src) THEN l
    ELSE tokenizeLoop(src, tokenizeIteration(src, l))

Tokenize(src) == tokenizeLoop(src, [pos |-> 0, tokens |-> <<>>, error |-> NoLexError])

\* the lexer state of the specification
L == [pos |-> lexPos, tokens |-> lexed, error |-> lexError]

InitLex ==
    /\ source \in SeqsUpTo(LexChars, MaxSrcLen)
    /\ lexPos = 0
    /\ lexed = <<>>
    /\ lexStatus = "running"
    /\ lexError = NoLexError
    /\ input = <<>>
    /\ tokens = <<>>
    /\ pos = 0
    /\ parenStack = <<>>
    /\ inThenBranch = FALSE
    /\ status = "idle"
    /\ program = <<>>
    /\ iterations = {}
    /\ phase = "idle"
    /\ resolverErrors = <<>>
    /\ checkerErrors = <<>>
    /\ semanticErrors = <<>>
    /\ allErrors = <<>>
    /\ PassIdle

\* for pos < len(src) { ... }: one iteration
TokenizeStep ==
    /\ lexStatus = "running"
    /\ lexPos < Len(source)
    /\ \E l \in {tokenizeIteration(source, L)} :
          /\ lexPos' = l.pos
          /\ lexed' = l.tokens
          /\ lexError' = l.error
          /\ lexStatus' = IF l.error # NoLexError THEN "panicked" ELSE "running"
    /\ UNCHANGED <<source, parserVars, checkVars, passVars>>

\* return tokens
TokenizeReturn ==
    /\ lexStatus = "running"
    /\ lexPos >= Len(source)
    /\ lexStatus' = "returned"
    /\ UNCHANGED <<source, lexPos, lexed, lexError, parserVars, checkVars, passVars>>

NextLex == TokenizeStep \/ TokenizeReturn

SpecLex == InitLex /\ [][NextLex]_vars

-----------------------------------------------------------------------------
(* Claims about the lexer *)

\* the text that Tokenize has not processed yet
remainingSrc == SubSeq(source, lexPos + 1, Len(source))

InIteration == lexStatus = "running" /\ lexPos < Len(source)

\* the indexes of the patterns that match at the current position
MatchingHere ==
    {i \in 1..Len(tokenPatterns) : anchoredLength(tokenPatterns[i], remainingSrc) # 0}

FirstMatchingHere == CHOOSE i \in MatchingHere : \A j \in MatchingHere : i <= j

\* C19: each iteration of the main loop of Tokenize either accepts the first
\* pattern that matches at the current position and advances the position
\* by the length of that match, at least one character, or, when no pattern
\* matches there, stops with the fatal error that names the position.
C19_IterationAcceptsFirstMatchOrNamesPosition ==
    [][InIteration =>
          IF MatchingHere # {}
          THEN /\ lexStatus' = "running"
               /\ lexPos' > lexPos
               /\ lexPos' = lexPos + anchoredLength(tokenPatterns[FirstMatchingHere], remainingSrc)
          ELSE /\ lexStatus' = "panicked"
               /\ lexError' = [msg |-> "failed to tokenize source at", index |-> lexPos]
               /\ lexPos' = lexPos]_vars

\* s begins with a number that has two underscores in a row or an underscore
\* at its end, or with a 0x or 0b prefix that no digit follows
IllFormedNumber(s) ==
    /\ s # <<>>
    /\ s[1] \in Digits
    /\ LET e == RunEnd(s, 1, Digits \cup {"_"})
       IN  \/ s[e] = "_"
           \/ \E i \in 1..(e - 1) : s[i] = "_" /\ s[i + 1] = "_"
           \/ /\ Len(s) >= 2
              /\ s[1] = "0"
              /\ \/ s[2] \in {"x", "X"} /\ (Len(s) = 2 \/ s[3] \notin HexDigits)
                 \/ s[2] \in {"b", "B"} /\ (Len(s) = 2 \/ s[3] \notin BinDigits)

\* C20: an iteration of Tokenize that stands at an ill-formed number literal
\* stops with a fatal error; it does not append a NUMBER token and go on.
C20_IllFormedNumberIsFatal ==
    [][(InIteration /\ IllFormedNumber(remainingSrc)) => lexStatus' = "panicked"]_vars

-----------------------------------------------------------------------------
(* Types.  A Type value is a record tagged by the name of its Go type; the  *)
(* nil interface value is NilType.                                          *)

NilType == [type |-> "nil"]

UnitType == [type |-> "UnitType"]

PrimitiveType(name) == [type |-> "PrimitiveType", Name |-> name]

ArrayType(elemType) == [type |-> "ArrayType", ElemType |-> elemType]

FuncType(returnType, paramTypes) ==
    [type |-> "FuncType", ReturnType |-> returnType, ParamTypes |-> paramTypes]

StructType(name, members) == [type |-> "StructType", Name |-> name, Members |-> members]

\* t.Equals(other) for a receiver t that is not nil
RECURSIVE Equals(_, _)
Equals(t, other) ==
    CASE t.type = "UnitType" -> other.type = "UnitType"
      [] t.type = "PrimitiveType" -> other.type = "PrimitiveType" /\ t.Name = other.Name
      [] t.type = "ArrayType" -> other.type = "ArrayType" /\ Equals(t.ElemType, other.ElemType)
      [] t.type = "FuncType" ->
            /\ other.type = "FuncType"
            /\ Len(t.ParamTypes) = Len(other.ParamTypes)
            /\ Equals(t.ReturnType, other.ReturnType)
            /\ \A i \in 1..Len(t.ParamTypes) : Equals(t.ParamTypes[i], other.ParamTypes[i])
      [] t.type = "StructType" -> other.type = "StructType" /\ t.Name = other.Name

IsUnit(t) == t.type = "UnitType"

IsPrimitive(t, name) == t.type = "PrimitiveType" /\ t.Name = name

IsNumeric(t) == t.type = "PrimitiveType" /\ t.Name \in {"i8", "i32", "i64", "f32", "f64"}

\* the names of the primitives map of the resolver and of the type checker
primitives == {"bool", "string", "i8", "i32", "i64", "f32", "f64"}

-----------------------------------------------------------------------------
(* Symbol tables.  The tables that a pass allocates are a sequence; a       *)
(* *SymbolTable is an index of it and the nil pointer is 0.  A Go map is a  *)
(* function on the set of its keys.                                         *)

EmptyMap == [k \in {} |-> NilType]

MapPut(m, key, value) == [k \in DOMAIN m \cup {key} |-> IF k = key THEN value ELSE m[k]]

NewSymbolTable(parent) ==
    [parent |-> parent, vars |-> EmptyMap, structTypes |-> EmptyMap, funcs |-> EmptyMap]

\* the result of a lookup: (type, ok)
Lookup(t, ok) == [type |-> t, ok |-> ok]

DefineVar(tables, st, name, varType) ==
    [tables EXCEPT ![st].vars = MapPut(@, name, varType)]

RECURSIVE LookupVarType(_, _, _)
LookupVarType(tables, st, name) ==
    IF name \in DOMAIN tables[st].vars THEN Lookup(tables[st].vars[name], TRUE)
    ELSE IF tables[st].parent # 0 THEN LookupVarType(tables, tables[st].parent, name)
    ELSE Lookup(NilType, FALSE)

DefineStructType(tables, st, name, structType) ==
    [tables EXCEPT ![st].structTypes = MapPut(@, name, structType)]

RECURSIVE LookupStructType(_, _, _)
LookupStructType(tables, st, name) ==
    IF name \in DOMAIN tables[st].structTypes THEN Lookup(tables[st].structTypes[name], TRUE)
    ELSE IF tables[st].parent # 0 THEN LookupStructType(tables, tables[st].parent, name)
    ELSE Lookup(StructType("", EmptyMap), FALSE)

DefineFunc(tables, st, name, funcType) ==
    [tables EXCEPT ![st].funcs = MapPut(@, name, funcType)]

RECURSIVE LookupFunc(_, _, _)
LookupFunc(tables, st, name) ==
    IF name \in DOMAIN tables[st].funcs THEN Lookup(tables[st].funcs[name], TRUE)
    ELSE IF tables[st].parent # 0 THEN LookupFunc(tables, tables[st].parent, name)
    ELSE Lookup(FuncType(NilType, <<>>), FALSE)

-----------------------------------------------------------------------------
(* The resolver.  The Resolver object is the record                         *)
(*    [errors, symbolTable, tables, scopes]                                 *)
(* symbolTable is the current table, tables the tables allocated so far.    *)
(* scopes is the association of function declarations with their scopes     *)
(* that Check hands to the type checker.  A node of the module is named by  *)
(* its path, the sequence of child numbers that leads to it: statement i    *)
(* of a block is child i, the branches of an if are children 1 and 2, the   *)
(* init, iter and body of a for are children 1, 2 and 3, and the body of a  *)
(* function is child 1.  The path stands for the address of the node.       *)

\* an error of a pass: the prefix, the format and its operands
PassError(kind, msg, args) == [kind |-> kind, msg |-> msg, args |-> args]

NewResolver ==
    [errors |-> <<>>, symbolTable |-> 1, tables |-> <<NewSymbolTable(0)>>,
     scopes |-> EmptyMap]

ResolverErr(r, msg, args) ==
    [r EXCEPT !.errors = Append(@, PassError("Resolve Error", msg, args))]

\* the result of ResolveType: the resolver and the Type
Typed(r, t) == [r |-> r, t |-> t]

RECURSIVE ResolveType(_, _)
\* the loop of ResolveType over the parameter types of a FuncTypeExpr
RECURSIVE resolveParamTypes(_, _, _, _)
resolveParamTypes(r, astParamTypes, i, paramTypes) ==
    IF i > Len(astParamTypes) THEN Typed(r, paramTypes)
    ELSE LET paramType == ResolveType(r, astParamTypes[i])
         IN  IF paramType.t = NilType
             THEN resolveParamTypes(paramType.r, astParamTypes, i + 1, paramTypes)
             ELSE resolveParamTypes(paramType.r, astParamTypes, i + 1,
                                    Append(paramTypes, paramType.t))

ResolveType(r, typeExpr) ==
    CASE typeExpr.node = "NamedTypeExpr" ->
            IF typeExpr.TypeName \in primitives
            THEN Typed(r, PrimitiveType(typeExpr.TypeName))
            ELSE LET structType == LookupStructType(r.tables, r.symbolTable, typeExpr.TypeName)
                 IN  IF structType.ok THEN Typed(r, structType.type)
                     ELSE Typed(ResolverErr(r, "undefined type: %s", <<typeExpr.TypeName>>),
                                NilType)
      [] typeExpr.node = "ArrayTypeExpr" ->
            LET elemType == ResolveType(r, typeExpr.UnderlyingType)
            IN  IF elemType.t = NilType THEN Typed(elemType.r, NilType)
                ELSE Typed(elemType.r, ArrayType(elemType.t))
      [] typeExpr.node = "FuncTypeExpr" ->
            LET paramTypes == resolveParamTypes(r, typeExpr.ParamTypes, 1, <<>>)
                returnType == ResolveType(paramTypes.r, typeExpr.ReturnType)
            IN  IF returnType.t = NilType THEN Typed(returnType.r, NilType)
                ELSE Typed(returnType.r, FuncType(returnType.t, paramTypes.t))
      [] OTHER -> Typed(ResolverErr(r, "unknown type: %T", <<typeExpr.node>>), NilType)

\* ResolveCall(f, r, n, path) is the call r.f(n) of the method named f of the
\* resolver r on the node n, which stands at path.  The methods of the
\* resolver call one another through ResolveCall.
RECURSIVE ResolveCall(_, _, _, _)

resolveStmt(r, stmt, path) ==
    CASE stmt.node = "BlockStmt" -> ResolveCall("resolveBlockStmt", r, stmt, path)
      [] stmt.node = "VarDeclStmt" -> ResolveCall("resolveVarDeclStmt", r, stmt, path)
      [] stmt.node = "StructDeclStmt" -> ResolveCall("resolveStructDeclStmt", r, stmt, path)
      [] stmt.node = "FuncDeclStmt" -> ResolveCall("resolveFuncDeclStmt", r, stmt, path)
      [] stmt.node = "IfStmt" -> ResolveCall("resolveIfStmt", r, stmt, path)
      [] stmt.node = "ForStmt" -> ResolveCall("resolveForStmt", r, stmt, path)
      [] stmt.node = "ReturnStmt" -> ResolveCall("resolveReturnStmt", r, stmt, path)
      [] stmt.node = "ExpressionStmt" -> ResolveCall("resolveExpr", r, stmt.Expr, path)
      [] OTHER -> ResolverErr(r, "unknown statement type: %T", <<stmt.node>>)

\* for _, stmt := range block.Statements { r.resolveStmt(stmt) }
RECURSIVE resolveStmts(_, _, _, _)
resolveStmts(r, statements, i, path) ==
    IF i > Len(statements) THEN r
    ELSE LET next == ResolveCall("resolveStmt", r, statements[i], Append(path, i))
         IN  resolveStmts(next, statements, i + 1, path)

resolveBlockStmt(r, block, path) ==
    LET oldTable == r.symbolTable
        pushed == [r EXCEPT !.tables = Append(@, NewSymbolTable(oldTable)),
                            !.symbolTable = Len(r.tables) + 1]
        done == resolveStmts(pushed, block.Statements, 1, path)
    IN  [done EXCEPT !.symbolTable = oldTable]

resolveVarDeclStmt(r, stmt, path) ==
    LET declaredType == ResolveType(r, stmt.Var.Type)
        inited == IF stmt.InitVal # Nil
                  THEN ResolveCall("resolveExpr", declaredType.r, stmt.InitVal, path)
                  ELSE declaredType.r
    IN  IF declaredType.t = NilType THEN declaredType.r
        ELSE [inited EXCEPT !.tables = DefineVar(inited.tables, inited.symbolTable,
                                                 stmt.Var.Name, declaredType.t)]

\* the loop of resolveStructDeclStmt over the members; acc is
\* [r, members, memberNames]
RECURSIVE resolveStructMembers(_, _, _)
resolveStructMembers(acc, stmt, i) ==
    IF i > Len(stmt.Members) THEN acc
    ELSE LET member == stmt.Members[i]
             memberType == ResolveType(acc.r, member.Type)
         IN  IF member.Name \in acc.memberNames
             THEN resolveStructMembers(
                      [acc EXCEPT !.r = ResolverErr(acc.r, "duplicate member %s in struct %s",
                                                    <<member.Name, stmt.Name>>)],
                      stmt, i + 1)
             ELSE IF memberType.t # NilType
             THEN resolveStructMembers(
                      [r |-> memberType.r,
                       members |-> MapPut(acc.members, member.Name, memberType.t),
                       memberNames |-> acc.memberNames \cup {member.Name}],
                      stmt, i + 1)
             ELSE resolveStructMembers([acc EXCEPT !.r = memberType.r], stmt, i + 1)

resolveStructDeclStmt(r, stmt, path) ==
    LET found == LookupStructType(r.tables, r.symbolTable, stmt.Name)
        acc == resolveStructMembers([r |-> r, members |-> EmptyMap, memberNames |-> {}],
                                    stmt, 1)
    IN  IF found.ok
        THEN ResolverErr(r, "redeclared struct %s in the same scope", <<stmt.Name>>)
        ELSE [acc.r EXCEPT !.tables = DefineStructType(acc.r.tables, acc.r.symbolTable,
                                          stmt.Name, StructType(stmt.Name, acc.members))]

\* the loop of resolveFuncDeclStmt over the parameters; acc is
\* [r, paramTypes, ok], ok being false when the function returned in the loop
RECURSIVE resolveParameters(_, _, _, _)
resolveParameters(acc, parameters, i, funcBodyTable) ==
    IF i > Len(parameters) THEN acc
    ELSE LET param == parameters[i]
             paramType == ResolveType(acc.r, param.Type)
         IN  IF paramType.t = NilType
             THEN [r |-> paramType.r, paramTypes |-> acc.paramTypes, ok |-> FALSE]
             ELSE resolveParameters(
                      [r |-> [paramType.r EXCEPT !.tables =
                                 DefineVar(paramType.r.tables, funcBodyTable,
                                           param.Name, paramType.t)],
                       paramTypes |-> Append(acc.paramTypes, paramType.t),
                       ok |-> TRUE],
                      parameters, i + 1, funcBodyTable)

\* the entry of resolved.Scopes for the function declaration at path, for the
\* checker to reuse: the scope in which the statements of the body are
\* resolved.  It is the table that resolveBlockStmt allocates next for the
\* body, the child of funcBodyTable; the parameters are found from it through
\* its parent, and the declarations made in the body are found in it.
recordScope(r, path, funcBodyTable) ==
    [r EXCEPT !.scopes = MapPut(@, path, Len(r.tables) + 1)]

resolveFuncDeclStmt(r, stmt, path) ==
    LET found == LookupFunc(r.tables, r.symbolTable, stmt.Name)
        returnType == IF stmt.ReturnType # Nil THEN ResolveType(r, stmt.ReturnType)
                      ELSE Typed(r, UnitType)
        funcBodyTable == Len(returnType.r.tables) + 1
        allocated == [returnType.r EXCEPT
                         !.tables = Append(@, NewSymbolTable(returnType.r.symbolTable))]
        params == resolveParameters([r |-> allocated, paramTypes |-> <<>>, ok |-> TRUE],
                                    stmt.Parameters, 1, funcBodyTable)
        funcType == FuncType(returnType.t, params.paramTypes)
        defined == [params.r EXCEPT !.tables = DefineFunc(params.r.tables,
                                        params.r.symbolTable, stmt.Name, funcType)]
        oldTable == defined.symbolTable
        entered == recordScope([defined EXCEPT !.symbolTable = funcBodyTable],
                               path, funcBodyTable)
        body == ResolveCall("resolveBlockStmt", entered, stmt.Body, Append(path, 1))
    IN  IF found.ok
        THEN ResolverErr(r, "redeclared function %s in the same scope", <<stmt.Name>>)
        ELSE IF returnType.t = NilType THEN returnType.r
        ELSE IF ~params.ok THEN params.r
        ELSE [body EXCEPT !.symbolTable = oldTable]

resolveIfStmt(r, stmt, path) ==
    LET cond == ResolveCall("resolveExpr", r, stmt.Cond, path)
        then == ResolveCall("resolveStmt", cond, stmt.Then, Append(path, 1))
    IN  IF stmt.Else # Nil
        THEN ResolveCall("resolveStmt", then, stmt.Else, Append(path, 2))
        ELSE then

resolveForStmt(r, stmt, path) ==
    LET init == ResolveCall("resolveStmt", r, stmt.Init, Append(path, 1))
        cond == ResolveCall("resolveExpr", init, stmt.Cond, path)
        iter == ResolveCall("resolveStmt", cond, stmt.Iter, Append(path, 2))
    IN  ResolveCall("resolveBlockStmt", iter, stmt.Body, Append(path, 3))

resolveReturnStmt(r, stmt, path) ==
    IF stmt.Expr # Nil THEN ResolveCall("resolveExpr", r, stmt.Expr, path) ELSE r

\* for _, arg := range e.Args { r.resolveExpr(arg) }
RECURSIVE resolveExprs(_, _, _, _)
resolveExprs(r, exprs, i, path) ==
    IF i > Len(exprs) THEN r
    ELSE LET next == ResolveCall("resolveExpr", r, exprs[i], path)
         IN  resolveExprs(next, exprs, i + 1, path)

\* for _, member := range e.Members { r.resolveExpr(member.Value) }
RECURSIVE resolveMemberValues(_, _, _, _)
resolveMemberValues(r, members, i, path) ==
    IF i > Len(members) THEN r
    ELSE LET next == ResolveCall("resolveExpr", r, members[i].Value, path)
         IN  resolveMemberValues(next, members, i + 1, path)

resolveExpr(r, e, path) ==
    CASE e.node \in {"NumberLiteralExpr", "StringLiteralExpr", "BoolLiteralExpr"} -> r
      [] e.node = "IdentExpr" ->
            IF /\ ~LookupVarType(r.tables, r.symbolTable, e.Value).ok
               /\ ~LookupStructType(r.tables, r.symbolTable, e.Value).ok
               /\ ~LookupFunc(r.tables, r.symbolTable, e.Value).ok
            THEN ResolverErr(r, "undefined identifier: %s", <<e.Value>>)
            ELSE r
      [] e.node = "BinaryExpr" ->
            LET lhs == ResolveCall("resolveExpr", r, e.Lhs, path)
            IN  ResolveCall("resolveExpr", lhs, e.Rhs, path)
      [] e.node = "UnaryExpr" -> ResolveCall("resolveExpr", r, e.Rhs, path)
      [] e.node = "GroupExpr" -> ResolveCall("resolveExpr", r, e.Expr, path)
      [] e.node = "FuncCallExpr" ->
            LET func == ResolveCall("resolveExpr", r, e.Func, path)
            IN  resolveExprs(func, e.Args, 1, path)
      [] e.node = "StructLiteralExpr" ->
            LET struct == ResolveCall("resolveExpr", r, e.Struct, path)
            IN  resolveMemberValues(struct, e.Members, 1, path)
      [] e.node = "StructMemberExpr" -> ResolveCall("resolveExpr", r, e.Struct, path)
      [] e.node = "ArrayIndexExpr" ->
            LET array == ResolveCall("resolveExpr", r, e.Array, path)
            IN  ResolveCall("resolveExpr", array, e.Index, path)
      [] e.node = "AssignExpr" ->
            LET assigne == ResolveCall("resolveExpr", r, e.Assigne, path)
            IN  ResolveCall("resolveExpr", assigne, e.AssignedValue, path)
      [] e.node = "VarDeclAssignExpr" ->
            ResolveCall("resolveExpr", r, e.AssignedValue, path)
      [] OTHER -> ResolverErr(r, "unknown expression type: %T", <<e.node>>)

\* the dispatch of ResolveCall
ResolveCall(f, r, n, path) ==
    CASE f = "resolveStmt" -> resolveStmt(r, n, path)
      [] f = "resolveBlockStmt" -> resolveBlockStmt(r, n, path)
      [] f = "resolveVarDeclStmt" -> resolveVarDeclStmt(r, n, path)
      [] f = "resolveStructDeclStmt" -> resolveStructDeclStmt(r, n, path)
      [] f = "resolveFuncDeclStmt" -> resolveFuncDeclStmt(r, n, path)
      [] f = "resolveIfStmt" -> resolveIfStmt(r, n, path)
      [] f = "resolveForStmt" -> resolveForStmt(r, n, path)
      [] f = "resolveReturnStmt" -> resolveReturnStmt(r, n, path)
      [] f = "resolveExpr" -> resolveExpr(r, n, path)

\* the ResolvedModule after the resolver r has run
resolvedModule(resolver) ==
    LET r == resolver
    IN  [SymbolTable |-> r.symbolTable, Errors |-> r.errors, tables |-> r.tables,
         RootScope |-> 2, Scopes |-> r.scopes]

\* Resolve(module).  tables are the tables that SymbolTable points into.
\* RootScope and Scopes are the fields that Check reads: the scope of the
\* declarations of the module, which resolveBlockStmt(module) allocates
\* first, and the scopes recorded for the function declarations.
Resolve(module) ==
    resolvedModule(ResolveCall("resolveBlockStmt", NewResolver, module, <<>>))

-----------------------------------------------------------------------------
(* Modules.  The passes are run on the modules built from a few leaf        *)
(* statements and a few kinds of statements with a body, with at most       *)
(* MaxNodes statements in all.                                              *)

\* number of statements of a module
MaxNodes == 3

Ident(name) == [node |-> "IdentExpr", Value |-> name]

Number(value) == [node |-> "NumberLiteralExpr", Value |-> value]

Bool(value) == [node |-> "BoolLiteralExpr", BoolValue |-> value]

NamedType(name) == [node |-> "NamedTypeExpr", TypeName |-> name]

ExprStmt(expr) == [node |-> "ExpressionStmt", Expr |-> expr, ExplicitSemicolon |-> FALSE]

Block(statements) == [node |-> "BlockStmt", Statements |-> statements]

VarDecl(name, type) ==
    [node |-> "VarDeclStmt", Var |-> [Name |-> name, Type |-> type], InitVal |-> Nil]

StructDecl(name, members) == [node |-> "StructDeclStmt", Name |-> name, Members |-> members]

FuncDecl(name, parameters, returnType, body) ==
    [node |-> "FuncDeclStmt", Name |-> name, Parameters |-> parameters,
     ReturnType |-> returnType, Body |-> Block(body)]

Return(expr) == [node |-> "ReturnStmt", Expr |-> expr]

If(cond, then, else) == [node |-> "IfStmt", Cond |-> cond, Then |-> then, Else |-> else]

For(init, cond, iter, body) ==
    [node |-> "ForStmt", Init |-> init, Cond |-> cond, Iter |-> iter, Body |-> Block(body)]

FuncCall(func, args) == [node |-> "FuncCallExpr", Func |-> func, Args |-> args]

VarDeclAssign(name, value) ==
    [node |-> "VarDeclAssignExpr", Name |-> name, AssignedValue |-> value]

Assign(assigne, value) ==
    [node |-> "AssignExpr", Assigne |-> assigne, Operator |-> Tok("EQUALS", "=", 0),
     AssignedValue |-> value]

StructLiteral(struct, members) ==
    [node |-> "StructLiteralExpr", Struct |-> struct, Members |-> members]

MemberAssign(name, value) == [node |-> "MemberAssignExpr", Name |-> name, Value |-> value]

StructMember(struct, member) ==
    [node |-> "StructMemberExpr", Struct |-> struct, Member |-> Ident(member)]

\* struct S { a: i32 }
StructS == StructDecl("S", <<[Name |-> "a", Type |-> NamedType("i32")]>>)

\* S{a = 1}
LiteralS == StructLiteral(Ident("S"), <<MemberAssign("a", Number("1"))>>)

\* struct P { a: i32, b: i32 }
StructP == StructDecl("P", <<[Name |-> "a", Type |-> NamedType("i32")],
                             [Name |-> "b", Type |-> NamedType("i32")]>>)

\* the statement of the kind w with the given body
Wrap(w, body) ==
    CASE w.wrap = "block" -> Block(body)
      [] w.wrap = "func" -> FuncDecl(w.name, <<>>, w.returnType, body)
      [] w.wrap = "if" -> If(Bool(TRUE), Block(body), w.else)
      [] w.wrap = "for" ->
            For(ExprStmt(Number("0")), Bool(TRUE), ExprStmt(Number("0")), body)

BlockWrap == [wrap |-> "block"]

FuncWrap(name, returnType) == [wrap |-> "func", name |-> name, returnType |-> returnType]

IfWrap(else) == [wrap |-> "if", else |-> else]

ForWrap == [wrap |-> "for"]

\* the statements with n statement nodes, and the statement lists with n
\* statement nodes in all
RECURSIVE Trees(_, _, _), Forests(_, _, _)
Trees(n, leaves, wraps) ==
    IF n = 1 THEN leaves \cup {Wrap(w, <<>>) : w \in wraps}
    ELSE LET bodies == Forests(n - 1, leaves, wraps)
         IN  {Wrap(w, body) : w \in wraps, body \in bodies}

Forests(n, leaves, wraps) ==
    IF n = 0 THEN {<<>>}
    ELSE UNION {LET first == Trees(k, leaves, wraps)
                    others == Forests(n - k, leaves, wraps)
                IN  {<<t>> \o rest : t \in first, rest \in others} : k \in 1..n}

ModulesOver(leaves, wraps) ==
    {Block(statements) : statements \in UNION {Forests(n, leaves, wraps) : n \in 0..MaxNodes}}

\* declarations and references: let x: i32, let v: S, struct S { a: i32 },
\* x, f(), x := 1
ResolverLeaves ==
    {VarDecl("x", NamedType("i32")), VarDecl("v", NamedType("S")), StructS,
     ExprStmt(Ident("x")), ExprStmt(FuncCall(Ident("f"), <<>>)),
     ExprStmt(VarDeclAssign("x", Number("1")))}

\* blocks and func f() { }
ResolverWraps == {BlockWrap, FuncWrap("f", Nil)}

\* returns and assignments: return, return 1, struct S { a: i32 },
\* S{a = 1}.a = 1, S{a = 1}.b = 1
CheckerLeaves ==
    {Return(Nil), Return(Number("1")), StructS,
     ExprStmt(Assign(StructMember(LiteralS, "a"), Number("1"))),
     ExprStmt(Assign(StructMember(LiteralS, "b"), Number("1")))}

\* struct literals that leave members out: struct P { a: i32, b: i32 },
\* P{}, P{a = 1}
LiteralLeaves ==
    {StructP, ExprStmt(StructLiteral(Ident("P"), <<>>)),
     ExprStmt(StructLiteral(Ident("P"), <<MemberAssign("a", Number("1"))>>))}

\* blocks, func f(): i32 { } and func g() { }
CheckerWraps == {BlockWrap, FuncWrap("f", NamedType("i32")), FuncWrap("g", Nil)}

\* control flow: return 1, 1
FlowLeaves == {Return(Number("1")), ExprStmt(Number("1"))}

\* blocks, func f(): i32 { }, func g(): i32 { }, if true { },
\* if true { } else { return 1 }, if true { } else { }, for 0; true; 0 { }
FlowWraps ==
    {BlockWrap, FuncWrap("f", NamedType("i32")), FuncWrap("g", NamedType("i32")),
     IfWrap(Nil), IfWrap(Block(<<Return(Number("1"))>>)), IfWrap(Block(<<>>)), ForWrap}

-----------------------------------------------------------------------------
(* The type checker.  The TypeChecker object is the record                  *)
(*    [Errors, symbolTable, tables, scopes, currentFuncReturnType, panicked,*)
(*     rangeOrders]                                                         *)
(* tables are the tables of the resolver and those that the type checker    *)
(* allocates.  panicked models the Go panic of a method call on a nil Type, *)
(* which unwinds the whole pass: once it is set, the object stays as it is. *)

NewTypeChecker(symbolTable, scopes, tables, rangeOrders) ==
    [Errors |-> <<>>, symbolTable |-> symbolTable, tables |-> tables, scopes |-> scopes,
     currentFuncReturnType |-> NilType, panicked |-> FALSE, rangeOrders |-> rangeOrders]

TypeCheckerErr(tc, msg, args) ==
    IF tc.panicked THEN tc
    ELSE [tc EXCEPT !.Errors = Append(@, PassError("Type Error", msg, args))]

\* the panic of t.Equals(...) for t == nil
NilDereference(tc) == [tc EXCEPT !.panicked = TRUE]

\* the result of a Check method: the type checker and the Type
Checked(tc, t) == [tc |-> tc, t |-> t]

\* the text of a Type as %s prints it
RECURSIVE TypeString(_)
\* the parameter types of a FuncType, joined with commas
RECURSIVE paramStrings(_, _)
paramStrings(paramTypes, i) ==
    IF i > Len(paramTypes) THEN <<>>
    ELSE <<TypeString(paramTypes[i])>> \o paramStrings(paramTypes, i + 1)

TypeString(t) ==
    CASE t.type = "UnitType" -> <<"()">>
      [] t.type = "PrimitiveType" -> <<t.Name>>
      [] t.type = "ArrayType" -> <<TypeString(t.ElemType), "[]">>
      [] t.type = "FuncType" -> <<"func", paramStrings(t.ParamTypes, 1), TypeString(t.ReturnType)>>
      [] t.type = "StructType" -> <<t.Name>>
      [] OTHER -> <<"%!s(<nil>)">>

\* CheckCall(f, tc, n, path) is the call tc.f(n) of the method named f of the
\* type checker tc on the node n, which stands at path; the result of a
\* method that returns nothing has the Type nil.  The methods of the type
\* checker call one another through CheckCall.
RECURSIVE CheckCall(_, _, _, _)

CheckStmt(tc, stmt, path) ==
    CASE stmt.node = "BlockStmt" -> CheckCall("CheckBlockStmt", tc, stmt, path)
      [] stmt.node = "VarDeclStmt" -> CheckCall("CheckVarDeclStmt", tc, stmt, path)
      [] stmt.node = "StructDeclStmt" -> CheckCall("CheckStructDeclStmt", tc, stmt, path)
      [] stmt.node = "FuncDeclStmt" -> CheckCall("CheckFuncDeclStmt", tc, stmt, path)
      [] stmt.node = "IfStmt" -> CheckCall("CheckIfStmt", tc, stmt, path)
      [] stmt.node = "ForStmt" -> CheckCall("CheckForStmt", tc, stmt, path)
      [] stmt.node = "ReturnStmt" -> CheckCall("CheckReturnStmt", tc, stmt, path)
      [] stmt.node = "ExpressionStmt" ->
            LET expr == CheckCall("CheckExpr", tc, stmt.Expr, path)
            IN  Checked(expr.tc, NilType)
      [] OTHER -> Checked(TypeCheckerErr(tc, "unknown statement type: %T", <<stmt.node>>),
                          NilType)

\* for _, stmt := range statements { tc.CheckStmt(stmt) }
RECURSIVE checkStmts(_, _, _, _)
checkStmts(tc, statements, i, path) ==
    IF i > Len(statements) \/ tc.panicked THEN tc
    ELSE LET next == CheckCall("CheckStmt", tc, statements[i], Append(path, i))
         IN  checkStmts(next.tc, statements, i + 1, path)

CheckBlockStmt(tc, block, path) ==
    LET oldTable == tc.symbolTable
        pushed == [tc EXCEPT !.tables = Append(@, NewSymbolTable(oldTable)),
                             !.symbolTable = Len(tc.tables) + 1]
        done == checkStmts(pushed, block.Statements, 1, path)
    IN  IF done.panicked THEN Checked(done, NilType)
        ELSE Checked([done EXCEPT !.symbolTable = oldTable], NilType)

CheckVarDeclStmt(tc, stmt, path) ==
    LET declaredType == LookupVarType(tc.tables, tc.symbolTable, stmt.Var.Name)
        initType == CheckCall("CheckExpr", tc, stmt.InitVal, path)
    IN  IF ~declaredType.ok
        THEN Checked(TypeCheckerErr(tc, "variable %s not found in symbol table",
                                    <<stmt.Var.Name>>), NilType)
        ELSE IF stmt.InitVal = Nil THEN Checked(tc, NilType)
        ELSE IF initType.t = NilType THEN Checked(initType.tc, NilType)
        ELSE IF declaredType.type = NilType THEN Checked(NilDereference(initType.tc), NilType)
        ELSE IF ~Equals(declaredType.type, initType.t)
        THEN Checked(TypeCheckerErr(initType.tc,
                        "type mismatch: variable %s declared as %s but initialized with %s",
                        <<stmt.Var.Name, TypeString(declaredType.type),
                          TypeString(initType.t)>>), NilType)
        ELSE Checked(initType.tc, NilType)

CheckStructDeclStmt(tc, stmt, path) ==
    IF ~LookupStructType(tc.tables, tc.symbolTable, stmt.Name).ok
    THEN Checked(TypeCheckerErr(tc, "struct %s not found in symbol table", <<stmt.Name>>),
                 NilType)
    ELSE Checked(tc, NilType)

\* CheckFuncDeclStmt that leaves no return type behind it, in place of the
\* return type it found on entry
CheckFuncDeclStmtRestoresNil(tc, stmt, path) ==
    LET funcType == LookupFunc(tc.tables, tc.symbolTable, stmt.Name)
        oldTable == tc.symbolTable
        entered == [tc EXCEPT !.currentFuncReturnType = funcType.type.ReturnType,
                              !.symbolTable = tc.scopes[path]]
        body == checkStmts(entered, stmt.Body.Statements, 1, Append(path, 1))
    IN  IF ~funcType.ok
        THEN Checked(TypeCheckerErr(tc, "function %s not found in symbol table",
                                    <<stmt.Name>>), NilType)
        ELSE IF path \notin DOMAIN tc.scopes
        THEN Checked(TypeCheckerErr(tc, "function %s scope not found in scope map",
                                    <<stmt.Name>>), NilType)
        ELSE IF body.panicked THEN Checked(body, NilType)
        ELSE Checked([body EXCEPT !.currentFuncReturnType = NilType,
                                  !.symbolTable = oldTable], NilType)

CheckFuncDeclStmt(tc, stmt, path) ==
    LET funcType == LookupFunc(tc.tables, tc.symbolTable, stmt.Name)
        oldReturnType == tc.currentFuncReturnType
        oldTable == tc.symbolTable
        entered == [tc EXCEPT !.currentFuncReturnType = funcType.type.ReturnType,
                              !.symbolTable = tc.scopes[path]]
        body == checkStmts(entered, stmt.Body.Statements, 1, Append(path, 1))
    IN  IF ~funcType.ok
        THEN Checked(TypeCheckerErr(tc, "function %s not found in symbol table",
                                    <<stmt.Name>>), NilType)
        ELSE IF path \notin DOMAIN tc.scopes
        THEN Checked(TypeCheckerErr(tc, "function %s scope not found in scope map",
                                    <<stmt.Name>>), NilType)
        ELSE IF body.panicked THEN Checked(body, NilType)
        ELSE Checked([body EXCEPT !.currentFuncReturnType = oldReturnType,
                                  !.symbolTable = oldTable], NilType)

CheckIfStmt(tc, stmt, path) ==
    LET condType == CheckCall("CheckExpr", tc, stmt.Cond, path)
        cond == IF ~IsPrimitive(condType.t, "bool")
                THEN TypeCheckerErr(condType.tc,
                        "if- statement condition does not evaluate to a boolean type", <<>>)
                ELSE condType.tc
        then == CheckCall("CheckStmt", cond, stmt.Then, Append(path, 1))
    IN  IF stmt.Else # Nil
        THEN CheckCall("CheckStmt", then.tc, stmt.Else, Append(path, 2))
        ELSE then

CheckForStmt(tc, stmt, path) ==
    LET init == CheckCall("CheckStmt", tc, stmt.Init, Append(path, 1))
        condType == CheckCall("CheckExpr", init.tc, stmt.Cond, path)
        cond == IF ~IsPrimitive(condType.t, "bool")
                THEN TypeCheckerErr(condType.tc,
                        "for- statement condition does not evaluate to a boolean type", <<>>)
                ELSE condType.tc
        iter == CheckCall("CheckStmt", cond, stmt.Iter, Append(path, 2))
    IN  CheckCall("CheckStmt", iter.tc, stmt.Body, Append(path, 3))

CheckReturnStmt(tc, stmt, path) ==
    LET isUnitReturn == IsUnit(tc.currentFuncReturnType)
        exprType == CheckCall("CheckExpr", tc, stmt.Expr, path)
    IN  IF tc.currentFuncReturnType = NilType
        THEN Checked(TypeCheckerErr(tc, "return statement outside of function", <<>>), NilType)
        ELSE IF stmt.Expr = Nil
        THEN IF ~isUnitReturn
             THEN Checked(TypeCheckerErr(tc, "expected function to return %s",
                                         <<TypeString(tc.currentFuncReturnType)>>), NilType)
             ELSE Checked(tc, NilType)
        ELSE IF exprType.t = NilType THEN Checked(exprType.tc, NilType)
        ELSE IF isUnitReturn
        THEN Checked(TypeCheckerErr(exprType.tc,
                        "cannot return a value from a function with no declared return type",
                        <<>>), NilType)
        ELSE IF ~Equals(exprType.t, tc.currentFuncReturnType)
        THEN Checked(TypeCheckerErr(exprType.tc, "return type mismatch: expected %s, found %s",
                        <<TypeString(tc.currentFuncReturnType), TypeString(exprType.t)>>),
                     NilType)
        ELSE Checked(exprType.tc, NilType)

CheckExpr(tc, e, path) ==
    CASE e.node = "NumberLiteralExpr" -> Checked(tc, PrimitiveType("i32"))
      [] e.node = "StringLiteralExpr" -> Checked(tc, PrimitiveType("string"))
      [] e.node = "BoolLiteralExpr" -> Checked(tc, PrimitiveType("bool"))
      [] e.node = "IdentExpr" ->
            IF LookupVarType(tc.tables, tc.symbolTable, e.Value).ok
            THEN Checked(tc, LookupVarType(tc.tables, tc.symbolTable, e.Value).type)
            ELSE IF LookupStructType(tc.tables, tc.symbolTable, e.Value).ok
            THEN Checked(tc, LookupStructType(tc.tables, tc.symbolTable, e.Value).type)
            ELSE IF LookupFunc(tc.tables, tc.symbolTable, e.Value).ok
            THEN Checked(tc, LookupFunc(tc.tables, tc.symbolTable, e.Value).type)
            ELSE Checked(TypeCheckerErr(tc, "undefined variable: %s", <<e.Value>>), NilType)
      [] e.node = "BinaryExpr" -> CheckCall("CheckBinaryExpr", tc, e, path)
      [] e.node = "UnaryExpr" -> CheckCall("CheckUnaryExpr", tc, e, path)
      [] e.node = "GroupExpr" -> CheckCall("CheckExpr", tc, e.Expr, path)
      [] e.node = "FuncCallExpr" -> CheckCall("CheckFuncCallExpr", tc, e, path)
      [] e.node = "StructLiteralExpr" -> CheckCall("CheckStructLiteralExpr", tc, e, path)
      [] e.node = "StructMemberExpr" -> CheckCall("CheckStructMemberExpr", tc, e, path)
      [] e.node = "ArrayIndexExpr" -> CheckCall("CheckArrayIndexExpr", tc, e, path)
      [] e.node = "AssignExpr" -> CheckCall("CheckAssignExpr", tc, e, path)
      [] e.node = "VarDeclAssignExpr" -> CheckCall("CheckVarDeclAssignExpr", tc, e, path)
      [] OTHER -> Checked(TypeCheckerErr(tc, "unknown expression type: %T", <<e.node>>),
                          NilType)

\* the switch of CheckBinaryExpr on the operator, for operands that have types
binaryResult(tc, expr, leftType, rightType) ==
    LET invalid == Checked(TypeCheckerErr(tc, "invalid operands for %s: %s and %s",
                               <<expr.Operator.Value, TypeString(leftType),
                                 TypeString(rightType)>>), NilType)
    IN  CASE expr.Operator.Type \in {"PLUS", "DASH", "STAR", "SLASH", "PERCENT"} ->
                IF IsNumeric(leftType) /\ IsNumeric(rightType) THEN Checked(tc, leftType)
                ELSE IF /\ expr.Operator.Type = "PLUS"
                        /\ IsPrimitive(leftType, "string")
                        /\ IsPrimitive(rightType, "string")
                THEN Checked(tc, PrimitiveType("string"))
                ELSE invalid
          [] expr.Operator.Type \in {"DOUBLE_EQUALS", "NOT_EQUALS"} ->
                IF ~Equals(leftType, rightType)
                THEN Checked(TypeCheckerErr(tc, "cannot compare %s and %s",
                                <<TypeString(leftType), TypeString(rightType)>>), NilType)
                ELSE Checked(tc, PrimitiveType("bool"))
          [] expr.Operator.Type \in {"LESS", "LESS_EQUALS", "GREATER", "GREATER_EQUALS"} ->
                IF IsNumeric(leftType) /\ IsNumeric(rightType)
                THEN Checked(tc, PrimitiveType("bool"))
                ELSE invalid
          [] expr.Operator.Type \in {"OR", "AND"} ->
                IF IsPrimitive(leftType, "bool") /\ IsPrimitive(rightType, "bool")
                THEN Checked(tc, PrimitiveType("bool"))
                ELSE invalid
          [] OTHER -> Checked(TypeCheckerErr(tc, "unsupported binary operator: %s",
                                             <<expr.Operator.Value>>), NilType)

CheckBinaryExpr(tc, expr, path) ==
    LET leftType == CheckCall("CheckExpr", tc, expr.Lhs, path)
        rightType == CheckCall("CheckExpr", leftType.tc, expr.Rhs, path)
    IN  IF leftType.t = NilType \/ rightType.t = NilType THEN Checked(rightType.tc, NilType)
        ELSE binaryResult(rightType.tc, expr, leftType.t, rightType.t)

CheckUnaryExpr(tc, expr, path) ==
    LET operandType == CheckCall("CheckExpr", tc, expr.Rhs, path)
        invalid == Checked(TypeCheckerErr(operandType.tc, "invalid operand for %s: %s",
                               <<expr.Operator.Value, TypeString(operandType.t)>>), NilType)
    IN  IF operandType.t = NilType THEN Checked(operandType.tc, NilType)
        ELSE CASE expr.Operator.Type \in {"PLUS", "DASH"} ->
                    IF IsNumeric(operandType.t) THEN operandType ELSE invalid
               [] expr.Operator.Type = "NOT" ->
                    IF IsPrimitive(operandType.t, "bool")
                    THEN Checked(operandType.tc, PrimitiveType("bool"))
                    ELSE invalid
               [] OTHER -> Checked(TypeCheckerErr(operandType.tc,
                                      "unsupported unary operator: %s",
                                      <<expr.Operator.Value>>), NilType)

\* the loop of CheckFuncCallExpr over the arguments: the Type is nil when the
\* method returned nil in the loop, the return type otherwise
RECURSIVE checkArgs(_, _, _, _, _)
checkArgs(tc, expr, ft, i, path) ==
    IF i > Len(expr.Args) THEN Checked(tc, ft.ReturnType)
    ELSE LET argType == CheckCall("CheckExpr", tc, expr.Args[i], path)
         IN  IF argType.t = NilType THEN Checked(argType.tc, NilType)
             ELSE IF ~Equals(ft.ParamTypes[i], argType.t)
             THEN Checked(TypeCheckerErr(argType.tc,
                             "argument %d type mismatch: expected %s, found %s",
                             <<i, TypeString(ft.ParamTypes[i]), TypeString(argType.t)>>),
                          NilType)
             ELSE checkArgs(argType.tc, expr, ft, i + 1, path)

CheckFuncCallExpr(tc, expr, path) ==
    LET funcType == CheckCall("CheckExpr", tc, expr.Func, path)
        ft == funcType.t
    IN  IF funcType.t = NilType THEN Checked(funcType.tc, NilType)
        ELSE IF ft.type # "FuncType"
        THEN Checked(TypeCheckerErr(funcType.tc, "cannot call non-function value of type %s",
                                    <<TypeString(ft)>>), NilType)
        ELSE IF Len(expr.Args) # Len(ft.ParamTypes)
        THEN Checked(TypeCheckerErr(funcType.tc,
                        "wrong number of arguments, expected %d, found %d",
                        <<Len(ft.ParamTypes), Len(expr.Args)>>), NilType)
        ELSE checkArgs(funcType.tc, expr, ft, 1, path)

\* the loop of CheckStructLiteralExpr over the members of the literal; acc is
\* [tc, assignedMembers], assignedMembers being the set of the names whose
\* entry of the map is true
RECURSIVE checkMembers(_, _, _, _, _)
checkMembers(acc, expr, structType, i, path) ==
    IF i > Len(expr.Members) \/ acc.tc.panicked THEN acc
    ELSE LET member == expr.Members[i]
             assignedValueType == CheckCall("CheckExpr", acc.tc, member.Value, path)
         IN  IF member.Name \notin DOMAIN structType.Members
             THEN checkMembers(
                      [acc EXCEPT !.tc = TypeCheckerErr(acc.tc, "%s is not a member of struct %s",
                                                        <<member.Name, structType.Name>>)],
                      expr, structType, i + 1, path)
             ELSE IF member.Name \in acc.assignedMembers
             THEN checkMembers(
                      [acc EXCEPT !.tc = TypeCheckerErr(acc.tc,
                                            "struct member %s assigned multiple times",
                                            <<member.Name>>)],
                      expr, structType, i + 1, path)
             ELSE IF assignedValueType.t = NilType
             THEN checkMembers([acc EXCEPT !.tc = assignedValueType.tc],
                               expr, structType, i + 1, path)
             ELSE IF ~Equals(structType.Members[member.Name], assignedValueType.t)
             THEN checkMembers(
                      [acc EXCEPT !.tc = TypeCheckerErr(assignedValueType.tc,
                                            "cannot assign %s to %s of struct member %s",
                                            <<TypeString(assignedValueType.t),
                                              TypeString(structType.Members[member.Name]),
                                              member.Name>>)],
                      expr, structType, i + 1, path)
             ELSE checkMembers(
                      [tc |-> assignedValueType.tc,
                       assignedMembers |-> acc.assignedMembers \cup {member.Name}],
                      expr, structType, i + 1, path)

\* the last loop of CheckStructLiteralExpr, over the map assignedMembers.  Go
\* does not fix the order of a range over a map: the runtime takes the keys
\* in the order order, which is any order of the member names, and the loop
\* body reports the ones of them that are not assigned
RECURSIVE reportUnassigned(_, _, _, _)
reportUnassigned(tc, order, i, unassigned) ==
    IF i > Len(order) THEN tc
    ELSE IF order[i] \in unassigned
    THEN reportUnassigned(
             TypeCheckerErr(tc, "struct member %s is not assigned a value", <<order[i]>>),
             order, i + 1, unassigned)
    ELSE reportUnassigned(tc, order, i + 1, unassigned)

\* the range of a type checker that has not panicked takes the next of the
\* orders of the run
rangeAssignedMembers(tc, unassigned) ==
    IF tc.panicked THEN tc
    ELSE reportUnassigned([tc EXCEPT !.rangeOrders = Tail(@)],
                          Head(tc.rangeOrders), 1, unassigned)

CheckStructLiteralExpr(tc, expr, path) ==
    LET structTypeValue == CheckCall("CheckExpr", tc, expr.Struct, path)
        structType == structTypeValue.t
        acc == checkMembers([tc |-> structTypeValue.tc, assignedMembers |-> {}],
                            expr, structType, 1, path)
    IN  IF structType.type # "StructType"
        THEN Checked(TypeCheckerErr(structTypeValue.tc,
                        "expression of type %s cannot be used as a struct",
                        <<TypeString(structType)>>), NilType)
        ELSE Checked(rangeAssignedMembers(acc.tc,
                         DOMAIN structType.Members \ acc.assignedMembers),
                     structType)

CheckStructMemberExpr(tc, expr, path) ==
    LET structTypeValue == CheckCall("CheckExpr", tc, expr.Struct, path)
        structType == structTypeValue.t
    IN  IF structType.type # "StructType"
        THEN Checked(TypeCheckerErr(structTypeValue.tc,
                        "expression of type %s cannot be used as a struct",
                        <<TypeString(structType)>>), NilType)
        ELSE IF expr.Member.Value \notin DOMAIN structType.Members
        THEN Checked(TypeCheckerErr(structTypeValue.tc, "%s is not a member of struct %s",
                                    <<expr.Member.Value, structType.Name>>), NilType)
        ELSE Checked(structTypeValue.tc, structType.Members[expr.Member.Value])

CheckArrayIndexExpr(tc, expr, path) ==
    LET indexType == CheckCall("CheckExpr", tc, expr.Index, path)
        arrayExprType == CheckCall("CheckExpr", indexType.tc, expr.Array, path)
    IN  IF ~IsNumeric(indexType.t)
        THEN Checked(TypeCheckerErr(indexType.tc,
                        "array index expression does not result in a numeric type: %s",
                        <<expr.Index.node>>), NilType)
        ELSE IF arrayExprType.t = NilType THEN Checked(arrayExprType.tc, NilType)
        ELSE IF arrayExprType.t.type # "ArrayType"
        THEN Checked(TypeCheckerErr(arrayExprType.tc, "cannot index non-array type %s",
                                    <<"%!s(<nil>)[]">>), NilType)
        ELSE Checked(arrayExprType.tc, arrayExprType.t.ElemType)

CheckAssignExpr(tc, expr, path) ==
    LET assigne == CheckCall("CheckExpr", tc, expr.Assigne, path)
        assigned == CheckCall("CheckExpr", assigne.tc, expr.AssignedValue, path)
        assigneType == assigne.t
        assignedValueType == assigned.t
        numeric == IsNumeric(assigneType) /\ IsNumeric(assignedValueType)
        strings == IsPrimitive(assigneType, "string") /\ IsPrimitive(assignedValueType, "string")
        invalid == TypeCheckerErr(assigned.tc, "invalid operands for %s: %s and %s",
                       <<expr.Operator.Value, TypeString(assigneType),
                         TypeString(assignedValueType)>>)
    IN  CASE expr.Operator.Type = "EQUALS" ->
                IF assigned.tc.panicked THEN Checked(assigned.tc, NilType)
                ELSE IF assigneType = NilType THEN Checked(NilDereference(assigned.tc), NilType)
                ELSE IF ~Equals(assigneType, assignedValueType)
                THEN Checked(TypeCheckerErr(assigned.tc, "cannot assign %s to %s",
                                <<TypeString(assignedValueType), TypeString(assigneType)>>),
                             assigneType)
                ELSE Checked(assigned.tc, assigneType)
          [] expr.Operator.Type = "PLUS_EQUALS" ->
                IF ~numeric /\ ~strings THEN Checked(invalid, assigneType)
                ELSE Checked(assigned.tc, assigneType)
          [] expr.Operator.Type = "DASH_EQUALS" ->
                IF ~numeric THEN Checked(invalid, assigneType)
                ELSE Checked(assigned.tc, assigneType)
          [] OTHER -> Checked(assigned.tc, assigneType)

CheckVarDeclAssignExpr(tc, expr, path) ==
    LET assignedValueType == CheckCall("CheckExpr", tc, expr.AssignedValue, path)
        defined == IF assignedValueType.tc.panicked THEN assignedValueType.tc
                   ELSE [assignedValueType.tc EXCEPT !.tables =
                            DefineVar(assignedValueType.tc.tables,
                                      assignedValueType.tc.symbolTable,
                                      expr.Name, assignedValueType.t)]
    IN  Checked(defined, assignedValueType.t)

\* the dispatch of CheckCall; a call on a type checker that has panicked
\* does nothing
CheckCall(f, tc, n, path) ==
    IF tc.panicked THEN Checked(tc, NilType)
    ELSE CASE f = "CheckStmt" -> CheckStmt(tc, n, path)
           [] f = "CheckBlockStmt" -> CheckBlockStmt(tc, n, path)
           [] f = "CheckVarDeclStmt" -> CheckVarDeclStmt(tc, n, path)
           [] f = "CheckStructDeclStmt" -> CheckStructDeclStmt(tc, n, path)
           [] f = "CheckFuncDeclStmt" -> CheckFuncDeclStmt(tc, n, path)
           [] f = "CheckIfStmt" -> CheckIfStmt(tc, n, path)
           [] f = "CheckForStmt" -> CheckForStmt(tc, n, path)
           [] f = "CheckReturnStmt" -> CheckReturnStmt(tc, n, path)
           [] f = "CheckExpr" -> CheckExpr(tc, n, path)
           [] f = "CheckBinaryExpr" -> CheckBinaryExpr(tc, n, path)
           [] f = "CheckUnaryExpr" -> CheckUnaryExpr(tc, n, path)
           [] f = "CheckFuncCallExpr" -> CheckFuncCallExpr(tc, n, path)
           [] f = "CheckStructLiteralExpr" -> CheckStructLiteralExpr(tc, n, path)
           [] f = "CheckStructMemberExpr" -> CheckStructMemberExpr(tc, n, path)
           [] f = "CheckArrayIndexExpr" -> CheckArrayIndexExpr(tc, n, path)
           [] f = "CheckAssignExpr" -> CheckAssignExpr(tc, n, path)
           [] f = "CheckVarDeclAssignExpr" -> CheckVarDeclAssignExpr(tc, n, path)

\* the second pass of Check: the type checker after the statements of the
\* module have been checked in the root scope, the runtime taking the orders
\* rangeOrders for the ranges over a map
TypeCheck(module, resolvedMod, rangeOrders) ==
    checkStmts(NewTypeChecker(resolvedMod.RootScope, resolvedMod.Scopes, resolvedMod.tables,
                              rangeOrders),
               module.Statements, 1, <<>>)

-----------------------------------------------------------------------------
(* The semantic analyzer.  The SemanticAnalyzer object is the record        *)
(* [symbolTable, tables] of the symbol table it was made with, which it     *)
(* never changes, and its list errors, to which the methods only append: a  *)
(* method is modelled by the list of the errors that a call of it appends.  *)

NewSemanticAnalyzer(symbolTable, tables) == [symbolTable |-> symbolTable, tables |-> tables]

\* the list that sa.Err(msg) appends
SemanticAnalyzerErr(msg, args) == <<PassError("Semantic Error", msg, args)>>

RECURSIVE stmtReturns(_)
\* slices.ContainsFunc(statements[i:], stmtReturns)
RECURSIVE containsReturning(_, _)
containsReturning(statements, i) ==
    IF i > Len(statements) THEN FALSE
    ELSE IF stmtReturns(statements[i]) THEN TRUE
    ELSE containsReturning(statements, i + 1)

blockReturns(block) ==
    IF Len(block.Statements) = 0 THEN FALSE
    ELSE containsReturning(block.Statements, 1)

stmtReturns(stmt) ==
    CASE stmt.node = "BlockStmt" -> blockReturns(stmt)
      [] stmt.node = "ReturnStmt" -> TRUE
      [] stmt.node = "IfStmt" ->
            IF stmt.Else = Nil THEN FALSE
            ELSE stmtReturns(stmt.Then) /\ stmtReturns(stmt.Else)
      [] OTHER -> FALSE

\* the first loop of checkUnreachableCode, from the statement i on
RECURSIVE firstReturning(_, _)
firstReturning(block, i) ==
    IF i > Len(block.Statements) - 1 THEN <<>>
    ELSE IF stmtReturns(block.Statements[i])
    THEN SemanticAnalyzerErr("unreachable code after statement %d", <<i>>)
    ELSE firstReturning(block, i + 1)

RECURSIVE checkUnreachableCode(_)
\* the blocks of a statement that the second loop of checkUnreachableCode
\* checks, in its order
nestedBlocks(stmt) ==
    CASE stmt.node = "BlockStmt" -> <<stmt>>
      [] stmt.node = "IfStmt" ->
            (IF stmt.Then.node = "BlockStmt" THEN <<stmt.Then>> ELSE <<>>)
            \o (IF stmt.Else # Nil /\ stmt.Else.node = "BlockStmt"
                THEN <<stmt.Else>> ELSE <<>>)
      [] stmt.node = "ForStmt" -> <<stmt.Body>>
      [] OTHER -> <<>>

\* checkUnreachableCode of the blocks from the i-th on
RECURSIVE checkBlocks(_, _)
checkBlocks(blocks, i) ==
    IF i > Len(blocks) THEN <<>>
    ELSE checkUnreachableCode(blocks[i]) \o checkBlocks(blocks, i + 1)

\* the second loop of checkUnreachableCode, from the statement i on
RECURSIVE checkNested(_, _)
checkNested(block, i) ==
    IF i > Len(block.Statements) THEN <<>>
    ELSE checkBlocks(nestedBlocks(block.Statements[i]), 1) \o checkNested(block, i + 1)

checkUnreachableCode(block) == firstReturning(block, 1) \o checkNested(block, 1)

\* AnalyzeCall(f, sa, n) is the call sa.f(n) of the method named f of the
\* analyzer sa on the node n; the methods that analyze call one another
\* through AnalyzeCall.
RECURSIVE AnalyzeCall(_, _, _)

analyzeStmt(sa, stmt) ==
    CASE stmt.node = "BlockStmt" -> AnalyzeCall("analyzeBlockStmt", sa, stmt)
      [] stmt.node = "VarDeclStmt" -> AnalyzeCall("analyzeVarDeclStmt", sa, stmt)
      [] stmt.node = "StructDeclStmt" -> AnalyzeCall("analyzeStructDeclStmt", sa, stmt)
      [] stmt.node = "FuncDeclStmt" -> AnalyzeCall("analyzeFuncDeclStmt", sa, stmt)
      [] stmt.node = "IfStmt" -> AnalyzeCall("analyzeIfStmt", sa, stmt)
      [] stmt.node = "ForStmt" -> AnalyzeCall("analyzeForStmt", sa, stmt)
      [] stmt.node = "ReturnStmt" -> AnalyzeCall("analyzeReturnStmt", sa, stmt)
      [] stmt.node = "ExpressionStmt" -> AnalyzeCall("analyzeExpr", sa, stmt.Expr)
      [] OTHER -> SemanticAnalyzerErr("unknown statement type for semantic analysis: %T",
                                      <<stmt.node>>)

\* for _, stmt := range statements { sa.analyzeStmt(stmt) }
RECURSIVE analyzeStmts(_, _, _)
analyzeStmts(sa, statements, i) ==
    IF i > Len(statements) THEN <<>>
    ELSE AnalyzeCall("analyzeStmt", sa, statements[i]) \o analyzeStmts(sa, statements, i + 1)

analyzeBlockStmt(sa, block) ==
    analyzeStmts(sa, block.Statements, 1) \o checkUnreachableCode(block)

analyzeVarDeclStmt(sa, stmt) ==
    IF stmt.InitVal # Nil THEN AnalyzeCall("analyzeExpr", sa, stmt.InitVal) ELSE <<>>

analyzeStructDeclStmt(sa, stmt) == <<>>

analyzeFuncDeclStmt(sa, stmt) ==
    LET funcType == LookupFunc(sa.tables, sa.symbolTable, stmt.Name)
    IN  IF ~funcType.ok
        THEN SemanticAnalyzerErr(
                 "function %s not found in symbol table during semantic analysis",
                 <<stmt.Name>>)
        ELSE AnalyzeCall("analyzeBlockStmt", sa, stmt.Body)
             \o (IF /\ funcType.type.ReturnType # NilType
                    /\ ~IsUnit(funcType.type.ReturnType)
                    /\ ~blockReturns(stmt.Body)
                 THEN SemanticAnalyzerErr(
                          "function '%s' with return type %s does not return a value in all code paths",
                          <<stmt.Name, TypeString(funcType.type.ReturnType)>>)
                 ELSE <<>>)

analyzeIfStmt(sa, stmt) ==
    AnalyzeCall("analyzeExpr", sa, stmt.Cond)
    \o AnalyzeCall("analyzeStmt", sa, stmt.Then)
    \o (IF stmt.Else # Nil THEN AnalyzeCall("analyzeStmt", sa, stmt.Else) ELSE <<>>)

analyzeForStmt(sa, stmt) ==
    AnalyzeCall("analyzeStmt", sa, stmt.Init)
    \o AnalyzeCall("analyzeExpr", sa, stmt.Cond)
    \o AnalyzeCall("analyzeStmt", sa, stmt.Iter)
    \o AnalyzeCall("analyzeBlockStmt", sa, stmt.Body)

analyzeReturnStmt(sa, stmt) ==
    IF stmt.Expr # Nil THEN AnalyzeCall("analyzeExpr", sa, stmt.Expr) ELSE <<>>

\* for _, e := range exprs { sa.analyzeExpr(e) }
RECURSIVE analyzeExprs(_, _, _)
analyzeExprs(sa, exprs, i) ==
    IF i > Len(exprs) THEN <<>>
    ELSE AnalyzeCall("analyzeExpr", sa, exprs[i]) \o analyzeExprs(sa, exprs, i + 1)

\* for _, member := range members { sa.analyzeExpr(member.Value) }
RECURSIVE analyzeMemberValues(_, _, _)
analyzeMemberValues(sa, members, i) ==
    IF i > Len(members) THEN <<>>
    ELSE AnalyzeCall("analyzeExpr", sa, members[i].Value)
         \o analyzeMemberValues(sa, members, i + 1)

analyzeExpr(sa, e) ==
    CASE e.node \in {"NumberLiteralExpr", "StringLiteralExpr", "BoolLiteralExpr"} -> <<>>
      [] e.node = "IdentExpr" -> <<>>
      [] e.node = "BinaryExpr" ->
            AnalyzeCall("analyzeExpr", sa, e.Lhs) \o AnalyzeCall("analyzeExpr", sa, e.Rhs)
      [] e.node = "UnaryExpr" -> AnalyzeCall("analyzeExpr", sa, e.Rhs)
      [] e.node = "GroupExpr" -> AnalyzeCall("analyzeExpr", sa, e.Expr)
      [] e.node = "FuncCallExpr" ->
            AnalyzeCall("analyzeExpr", sa, e.Func) \o analyzeExprs(sa, e.Args, 1)
      [] e.node = "StructLiteralExpr" ->
            AnalyzeCall("analyzeExpr", sa, e.Struct) \o analyzeMemberValues(sa, e.Members, 1)
      [] e.node = "StructMemberExpr" -> AnalyzeCall("analyzeExpr", sa, e.Struct)
      [] e.node = "ArrayIndexExpr" ->
            AnalyzeCall("analyzeExpr", sa, e.Array) \o AnalyzeCall("analyzeExpr", sa, e.Index)
      [] e.node = "AssignExpr" ->
            AnalyzeCall("analyzeExpr", sa, e.Assigne)
            \o AnalyzeCall("analyzeExpr", sa, e.AssignedValue)
      [] e.node = "VarDeclAssignExpr" -> AnalyzeCall("analyzeExpr", sa, e.AssignedValue)
      [] OTHER -> SemanticAnalyzerErr("unknown expression type for semantic analysis: %T",
                                      <<e.node>>)

AnalyzeCall(f, sa, n) ==
    CASE f = "analyzeStmt" -> analyzeStmt(sa, n)
      [] f = "analyzeBlockStmt" -> analyzeBlockStmt(sa, n)
      [] f = "analyzeVarDeclStmt" -> analyzeVarDeclStmt(sa, n)
      [] f = "analyzeStructDeclStmt" -> analyzeStructDeclStmt(sa, n)
      [] f = "analyzeFuncDeclStmt" -> analyzeFuncDeclStmt(sa, n)
      [] f = "analyzeIfStmt" -> analyzeIfStmt(sa, n)
      [] f = "analyzeForStmt" -> analyzeForStmt(sa, n)
      [] f = "analyzeReturnStmt" -> analyzeReturnStmt(sa, n)
      [] f = "analyzeExpr" -> analyzeExpr(sa, n)

\* the errors of the third pass, on the symbol table the analyzer is given
AnalyzeSemantics(module, symbolTable, tables) ==
    AnalyzeCall("analyzeBlockStmt", NewSemanticAnalyzer(symbolTable, tables), module)

-----------------------------------------------------------------------------
(* SpecPasses: Check on the modules over the resolver's and the checker's   *)
(* statements, each pass being a step.  A panic of the type checker ends    *)
(* the call in the phase "panicked", and Check returns nothing.             *)

InitPasses ==
    /\ input = <<>>
    /\ tokens = <<>>
    /\ pos = 0
    /\ parenStack = <<>>
    /\ inThenBranch = FALSE
    /\ status = "returned"
    /\ program = <<>>
    /\ iterations = {}
    /\ phase = "called"
    /\ resolverErrors = <<>>
    /\ checkerErrors = <<>>
    /\ semanticErrors = <<>>
    /\ allErrors = <<>>
    /\ LexIdle
    /\ moduleAst \in ModulesOver(ResolverLeaves, ResolverWraps)
                     \cup ModulesOver(CheckerLeaves, CheckerWraps)
                     \cup ModulesOver(LiteralLeaves, {BlockWrap})
    /\ resolved = NoResolved
    /\ fatal = ""

\* resolved := Resolve(module); allErrors := resolved.Errors
ResolvePass ==
    /\ phase = "called"
    /\ \E res \in {Resolve(moduleAst)} :
          /\ resolved' = res
          /\ resolverErrors' = res.Errors
          /\ allErrors' = res.Errors
    /\ phase' = "resolved"
    /\ UNCHANGED <<checkerErrors, semanticErrors, moduleAst, fatal>>
    /\ UNCHANGED <<parserVars, lexVars>>

\* the orders of the elements of the finite set S
Orders(S) ==
    {order \in [1..Cardinality(S) -> S] :
        \A i, j \in 1..Cardinality(S) : i # j => order[i] # order[j]}

\* the orders the runtime can take for the ranges over assignedMembers of a
\* run of the type checker on the module: one order of the member names for
\* each struct literal
RangeOrders(module) ==
    LET nodes == Flatten(module)
        structs == {nodes[i] : i \in {j \in 1..Len(nodes) : nodes[j].node = "StructDeclStmt"}}
        names == UNION {{s.Members[i].Name : i \in 1..Len(s.Members)} : s \in structs}
        literals == Len(SelectSeq(nodes, LAMBDA n : n.node = "StructLiteralExpr"))
    IN  [1..literals -> Orders(names)]

\* tc := NewTypeChecker(resolved.RootScope, resolved.Scopes); tc.CheckStmt(stmt)
\* for the statements of the module; allErrors = append(allErrors, tc.Errors...).
\* The tables that the type checker wrote are the tables the next pass reads.
TypeCheckPass ==
    /\ phase = "resolved"
    /\ CheckerGate(resolverErrors)
    /\ \E rangeOrders \in RangeOrders(moduleAst) :
       \E tc \in {TypeCheck(moduleAst, resolved, rangeOrders)} :
          /\ checkerErrors' = tc.Errors
          /\ resolved' = [resolved EXCEPT !.tables = tc.tables]
          /\ IF tc.panicked
             THEN /\ fatal' = "invalid memory address or nil pointer dereference"
                  /\ phase' = "panicked"
                  /\ allErrors' = allErrors
             ELSE /\ fatal' = fatal
                  /\ phase' = "checked"
                  /\ allErrors' = allErrors \o tc.Errors
    /\ UNCHANGED <<resolverErrors, semanticErrors, moduleAst>>
    /\ UNCHANGED <<parserVars, lexVars>>

\* semanticErrors := AnalyzeSemantics(module, resolved.RootScope);
\* allErrors = append(allErrors, semanticErrors...)
SemanticsPass ==
    /\ phase = "checked"
    /\ SemanticsGate(checkerErrors)
    /\ \E errs \in {AnalyzeSemantics(moduleAst, resolved.RootScope, resolved.tables)} :
          /\ semanticErrors' = errs
          /\ allErrors' = allErrors \o errs
    /\ phase' = "analyzed"
    /\ UNCHANGED <<resolverErrors, checkerErrors>>
    /\ UNCHANGED <<parserVars, lexVars, passVars>>

NextPasses == ResolvePass \/ TypeCheckPass \/ SemanticsPass \/ CheckReturn

SpecPasses == InitPasses /\ [][NextPasses]_vars

-----------------------------------------------------------------------------
(* Claims about the resolver and the type checker *)

\* the statement lists of the scopes of a statement: the statements of a
\* block, of a function body, of a block branch of an if, of a for body
RECURSIVE ScopesOf(_)
ScopesOf(stmt) ==
    CASE stmt.node = "BlockStmt" ->
            {stmt.Statements}
            \cup UNION {ScopesOf(stmt.Statements[i]) : i \in 1..Len(stmt.Statements)}
      [] stmt.node = "FuncDeclStmt" -> ScopesOf(stmt.Body)
      [] stmt.node = "IfStmt" ->
            ScopesOf(stmt.Then) \cup (IF stmt.Else = Nil THEN {} ELSE ScopesOf(stmt.Else))
      [] stmt.node = "ForStmt" -> ScopesOf(stmt.Body)
      [] OTHER -> {}

DeclKind(stmt) ==
    CASE stmt.node = "VarDeclStmt" -> "variable"
      [] stmt.node = "StructDeclStmt" -> "struct"
      [] stmt.node = "FuncDeclStmt" -> "function"
      [] OTHER -> "none"

DeclName(stmt) ==
    CASE stmt.node = "VarDeclStmt" -> stmt.Var.Name
      [] stmt.node \in {"StructDeclStmt", "FuncDeclStmt"} -> stmt.Name
      [] OTHER -> ""

\* statement j of the list declares a name that an earlier statement of the
\* list declared, with the same kind
RedeclaresAt(statements, j) ==
    /\ DeclKind(statements[j]) # "none"
    /\ \E i \in 1..(j - 1) :
          /\ DeclKind(statements[i]) = DeclKind(statements[j])
          /\ DeclName(statements[i]) = DeclName(statements[j])

\* the earlier declaration is one that defines its name whatever is around
\* it: a variable of a primitive type, or a struct or a function
RedefinesAt(statements, j) ==
    /\ DeclKind(statements[j]) # "none"
    /\ \E i \in 1..(j - 1) :
          /\ DeclKind(statements[i]) = DeclKind(statements[j])
          /\ DeclName(statements[i]) = DeclName(statements[j])
          /\ \/ DeclKind(statements[i]) # "variable"
             \/ statements[i].Var.Type = NamedType("i32")

UndefinedMessages == {"undefined identifier: %s", "undefined type: %s", "undefined variable: %s"}

RedeclaredMessages ==
    {"redeclared struct %s in the same scope", "redeclared function %s in the same scope"}

\* some error of the list with the one operand name and one of the messages
HasError(errors, messages, name) ==
    \E k \in 1..Len(errors) : errors[k].msg \in messages /\ errors[k].args = <<name>>

\* some error of the list about the name that is not an undefined- error
HasErrorAbout(errors, name) ==
    \E k \in 1..Len(errors) :
        errors[k].msg \notin UndefinedMessages /\ errors[k].args = <<name>>

\* C11: once the resolver has run, for every scope of the module and every
\* declaration in it of a name that an earlier declaration of the same kind
\* in the same scope has defined, the errors of the resolver have an error
\* about the redeclared name.
C11_RedeclarationInScopeReported ==
    phase # "called" =>
        \A statements \in ScopesOf(moduleAst) :
            \A j \in 1..Len(statements) :
                RedefinesAt(statements, j)
                    => HasErrorAbout(resolverErrors, DeclName(statements[j]))

\* C12: once the resolver has run, every redeclaration error that it reports
\* names something that is declared twice, with the same kind, in one scope:
\* a declaration whose name is defined only in an enclosing scope is not
\* reported.
C12_ShadowingNeverReported ==
    phase # "called" =>
        \A k \in 1..Len(resolverErrors) :
            resolverErrors[k].msg \in RedeclaredMessages
                => \E statements \in ScopesOf(moduleAst) :
                      \E j \in 1..Len(statements) :
                          /\ RedeclaresAt(statements, j)
                          /\ <<DeclName(statements[j])>> = resolverErrors[k].args

\* statement i of the list is name := value
DeclAssignAt(statements, i, name) ==
    /\ statements[i].node = "ExpressionStmt"
    /\ statements[i].Expr.node = "VarDeclAssignExpr"
    /\ statements[i].Expr.Name = name

\* statement j of the list is the reference name
ReferenceAt(statements, j, name) == statements[j] = ExprStmt(Ident(name))

\* C13: when Check has returned, for every scope of the module in which a
\* statement name := value is followed by a reference to name, the errors
\* have no undefined- error for name.
C13_DeclAssignDefinesName ==
    phase = "returned" =>
        \A statements \in ScopesOf(moduleAst) :
            \A i, j \in 1..Len(statements) :
                \A name \in {"x"} :
                    (i < j /\ DeclAssignAt(statements, i, name)
                           /\ ReferenceAt(statements, j, name))
                        => ~HasError(allErrors, UndefinedMessages, name)

\* C14: when Check has returned, a function or a struct that the module
\* declares in its own scope, before or after its uses, has no undefined-
\* error.
C14_OrderInsensitive ==
    phase = "returned" =>
        \A i \in 1..Len(moduleAst.Statements) :
            DeclKind(moduleAst.Statements[i]) \in {"function", "struct"}
                => ~HasError(allErrors, UndefinedMessages, DeclName(moduleAst.Statements[i]))

\* the return statements of a statement that are in no function body
RECURSIVE ReturnsOutside(_)
RECURSIVE returnsOutsideOf(_, _)
returnsOutsideOf(statements, i) ==
    IF i > Len(statements) THEN 0
    ELSE ReturnsOutside(statements[i]) + returnsOutsideOf(statements, i + 1)

ReturnsOutside(stmt) ==
    CASE stmt.node = "ReturnStmt" -> 1
      [] stmt.node = "BlockStmt" -> returnsOutsideOf(stmt.Statements, 1)
      [] stmt.node = "IfStmt" ->
            ReturnsOutside(stmt.Then)
            + (IF stmt.Else = Nil THEN 0 ELSE ReturnsOutside(stmt.Else))
      [] stmt.node = "ForStmt" ->
            ReturnsOutside(stmt.Init) + ReturnsOutside(stmt.Iter) + ReturnsOutside(stmt.Body)
      [] OTHER -> 0

\* the number of the errors of the list with the message
RECURSIVE CountMessage(_, _)
CountMessage(errors, msg) ==
    IF errors = <<>> THEN 0
    ELSE (IF Head(errors).msg = msg THEN 1 ELSE 0) + CountMessage(Tail(errors), msg)

\* the type checker has run to the end of the module
TypeChecked ==
    \/ phase \in {"checked", "analyzed"}
    \/ phase = "returned" /\ resolverErrors = <<>>

\* the messages of CheckReturnStmt about the return statement itself
ReturnMessages ==
    {"return statement outside of function", "expected function to return %s",
     "cannot return a value from a function with no declared return type",
     "return type mismatch: expected %s, found %s"}

\* the errors of the list that are about a return statement, in their order
ReturnErrors(errors) == SelectSeq(errors, LAMBDA e : e.msg \in ReturnMessages)

\* the type of a literal
LiteralType(e) ==
    CASE e.node = "NumberLiteralExpr" -> PrimitiveType("i32")
      [] e.node = "StringLiteralExpr" -> PrimitiveType("string")
      [] e.node = "BoolLiteralExpr" -> PrimitiveType("bool")

\* the return type that the declaration of a function states: a primitive
\* type, or the unit type when it states none
DeclaredReturnType(stmt) ==
    IF stmt.ReturnType = Nil THEN UnitType ELSE PrimitiveType(stmt.ReturnType.TypeName)

\* what the language asks of a return statement in a function whose declared
\* return type is declared, NilType standing for no function
JudgedReturn(stmt, declared) ==
    IF declared = NilType
    THEN <<PassError("Type Error", "return statement outside of function", <<>>)>>
    ELSE IF stmt.Expr = Nil
    THEN IF declared # UnitType
         THEN <<PassError("Type Error", "expected function to return %s",
                          <<TypeString(declared)>>)>>
         ELSE <<>>
    ELSE IF declared = UnitType
    THEN <<PassError("Type Error",
                     "cannot return a value from a function with no declared return type",
                     <<>>)>>
    ELSE IF LiteralType(stmt.Expr) # declared
    THEN <<PassError("Type Error", "return type mismatch: expected %s, found %s",
                     <<TypeString(declared), TypeString(LiteralType(stmt.Expr))>>)>>
    ELSE <<>>

\* the judgements of the return statements of a statement, in the order of
\* the text, each against the declared return type of the innermost function
\* whose body it is in.  declared is that type at the statement; inBlock tells
\* that the statement is in a block, an if- or a for- statement: a function
\* declared there holds no return statement (ReturnsJudgeable).
RECURSIVE JudgedReturns(_, _, _)
RECURSIVE judgedReturnsOf(_, _, _, _)
judgedReturnsOf(statements, i, declared, inBlock) ==
    IF i > Len(statements) THEN <<>>
    ELSE JudgedReturns(statements[i], declared, inBlock)
         \o judgedReturnsOf(statements, i + 1, declared, inBlock)

JudgedReturns(stmt, declared, inBlock) ==
    CASE stmt.node = "ReturnStmt" -> JudgedReturn(stmt, declared)
      [] stmt.node = "BlockStmt" -> judgedReturnsOf(stmt.Statements, 1, declared, TRUE)
      [] stmt.node = "IfStmt" ->
            JudgedReturns(stmt.Then, declared, TRUE)
            \o (IF stmt.Else = Nil THEN <<>> ELSE JudgedReturns(stmt.Else, declared, TRUE))
      [] stmt.node = "ForStmt" ->
            JudgedReturns(stmt.Init, declared, TRUE) \o JudgedReturns(stmt.Iter, declared, TRUE)
            \o JudgedReturns(stmt.Body, declared, TRUE)
      [] stmt.node = "FuncDeclStmt" ->
            IF inBlock THEN <<>>
            ELSE judgedReturnsOf(stmt.Body.Statements, 1, DeclaredReturnType(stmt), FALSE)
      [] OTHER -> <<>>

\* the return statements of a statement, in a function body or not
RECURSIVE Returns(_)
Returns(stmt) ==
    IF stmt.node = "ReturnStmt" THEN {stmt}
    ELSE UNION {Returns(Children(stmt)[i]) : i \in 1..Len(Children(stmt))}

\* every return statement returns nothing or a literal, every function states
\* a primitive return type or none, and a function declared in a block, an
\* if- or a for- statement holds no return statement
RECURSIVE ReturnsJudgeable(_, _)
RECURSIVE returnsJudgeableOf(_, _, _)
returnsJudgeableOf(statements, i, inBlock) ==
    \/ i > Len(statements)
    \/ /\ ReturnsJudgeable(statements[i], inBlock)
       /\ returnsJudgeableOf(statements, i + 1, inBlock)

ReturnsJudgeable(stmt, inBlock) ==
    CASE stmt.node = "ReturnStmt" ->
            \/ stmt.Expr = Nil
            \/ stmt.Expr.node \in {"NumberLiteralExpr", "StringLiteralExpr", "BoolLiteralExpr"}
      [] stmt.node = "BlockStmt" -> returnsJudgeableOf(stmt.Statements, 1, TRUE)
      [] stmt.node = "IfStmt" ->
            /\ ReturnsJudgeable(stmt.Then, TRUE)
            /\ stmt.Else = Nil \/ ReturnsJudgeable(stmt.Else, TRUE)
      [] stmt.node = "ForStmt" ->
            /\ ReturnsJudgeable(stmt.Init, TRUE)
            /\ ReturnsJudgeable(stmt.Iter, TRUE)
            /\ ReturnsJudgeable(stmt.Body, TRUE)
      [] stmt.node = "FuncDeclStmt" ->
            /\ stmt.ReturnType # Nil =>
                    /\ stmt.ReturnType.node = "NamedTypeExpr"
                    /\ stmt.ReturnType.TypeName \in primitives
            /\ IF inBlock THEN Returns(stmt) = {}
               ELSE returnsJudgeableOf(stmt.Body.Statements, 1, FALSE)
      [] OTHER -> TRUE

\* C17: when the type checker has run to the end of the module, it has
\* reported 'return statement outside of function' once for each return
\* statement that is in no function body, and for no other; and its errors
\* about return statements are, in the order of the text, the judgement of
\* each return statement against the declared return type of the innermost
\* function whose body it is in, the return statements after a function
\* declared inside that body included, and the report of each return
\* statement that is in no function body.  The second part is stated for the
\* modules whose functions declared in blocks hold no return statement.
C17_ReturnOutsideFunctionReported ==
    TypeChecked =>
        /\ CountMessage(checkerErrors, "return statement outside of function")
              = ReturnsOutside(moduleAst)
        /\ returnsJudgeableOf(moduleAst.Statements, 1, FALSE) =>
              ReturnErrors(checkerErrors)
                = judgedReturnsOf(moduleAst.Statements, 1, NilType, FALSE)

\* func f(): i32 { func g() { } return }: the function g, which returns
\* nothing, has been entered and left inside the body of f, and the return
\* after it is judged against f
C17_Witness ==
    /\ phase = "checked"
    /\ moduleAst = Block(<<FuncDecl("f", <<>>, NamedType("i32"),
                                   <<FuncDecl("g", <<>>, Nil, <<>>), Return(Nil)>>)>>)
    /\ checkerErrors = <<PassError("Type Error", "expected function to return %s",
                                   <<TypeString(PrimitiveType("i32"))>>)>>

\* C18: the type checker does not panic on a module that passed the
\* resolver.
C18_TypeCheckerNeverHalts == phase # "panicked"

-----------------------------------------------------------------------------
(* SpecSemantics: the semantic analyzer on the control-flow modules that    *)
(* the resolver accepts, with the root scope of the resolver as its symbol  *)
(* table.                                                                   *)

InitSemantics ==
    /\ input = <<>>
    /\ tokens = <<>>
    /\ pos = 0
    /\ parenStack = <<>>
    /\ inThenBranch = FALSE
    /\ status = "returned"
    /\ program = <<>>
    /\ iterations = {}
    /\ phase = "called"
    /\ resolverErrors = <<>>
    /\ checkerErrors = <<>>
    /\ semanticErrors = <<>>
    /\ allErrors = <<>>
    /\ LexIdle
    /\ moduleAst \in ModulesOver(FlowLeaves, FlowWraps)
    /\ resolved = NoResolved
    /\ fatal = ""

\* semanticErrors := AnalyzeSemantics(module, resolved.RootScope)
AnalyzePass ==
    /\ phase = "resolved"
    /\ CheckerGate(resolverErrors)
    /\ \E errs \in {AnalyzeSemantics(moduleAst, resolved.RootScope, resolved.tables)} :
          /\ semanticErrors' = errs
          /\ allErrors' = allErrors \o errs
    /\ phase' = "analyzed"
    /\ UNCHANGED <<resolverErrors, checkerErrors>>
    /\ UNCHANGED <<parserVars, lexVars, passVars>>

NextSemantics == ResolvePass \/ AnalyzePass

SpecSemantics == InitSemantics /\ [][NextSemantics]_vars

-----------------------------------------------------------------------------
(* Claims about the semantic analyzer *)

\* the function declarations of a statement, at every depth
RECURSIVE FuncDeclsOf(_)
FuncDeclsOf(stmt) ==
    CASE stmt.node = "BlockStmt" ->
            UNION {FuncDeclsOf(stmt.Statements[i]) : i \in 1..Len(stmt.Statements)}
      [] stmt.node = "FuncDeclStmt" -> {stmt} \cup FuncDeclsOf(stmt.Body)
      [] stmt.node = "IfStmt" ->
            FuncDeclsOf(stmt.Then)
            \cup (IF stmt.Else = Nil THEN {} ELSE FuncDeclsOf(stmt.Else))
      [] stmt.node = "ForStmt" -> FuncDeclsOf(stmt.Body)
      [] OTHER -> {}

\* the blocks of a statement, at every depth: the block statements, the
\* function bodies, the block branches of the ifs and the for bodies
RECURSIVE BlocksOf(_)
BlocksOf(stmt) ==
    CASE stmt.node = "BlockStmt" ->
            {stmt} \cup UNION {BlocksOf(stmt.Statements[i]) : i \in 1..Len(stmt.Statements)}
      [] stmt.node = "FuncDeclStmt" -> BlocksOf(stmt.Body)
      [] stmt.node = "IfStmt" ->
            BlocksOf(stmt.Then) \cup (IF stmt.Else = Nil THEN {} ELSE BlocksOf(stmt.Else))
      [] stmt.node = "ForStmt" -> BlocksOf(stmt.Body)
      [] OTHER -> {}

MissingReturnMessage ==
    "function '%s' with return type %s does not return a value in all code paths"

\* the errors of the list with the message whose first operand is the name
MissingReturnErrors(errors, name) ==
    {k \in 1..Len(errors) :
        errors[k].msg = MissingReturnMessage /\ errors[k].args[1] = name}

\* C15: once the analyzer has run, for every name of a function of the
\* module, at module level or nested, all with a non-unit return type: the
\* errors have a missing-return error naming the function if and only if
\* the body of a declaration of that name does not return.
C15_MissingReturnIffBodyDoesNotReturn ==
    phase = "analyzed" =>
        \A name \in {"f", "g"} :
            (MissingReturnErrors(semanticErrors, name) # {})
                <=> (\E decl \in FuncDeclsOf(moduleAst) :
                        decl.Name = name /\ ~blockReturns(decl.Body))

\* some statement of the block that returns is followed by another statement
HasUnreachable(block) ==
    \E i \in 1..(Len(block.Statements) - 1) : stmtReturns(block.Statements[i])

\* C16: once the analyzer has run, the number of its unreachable-code errors
\* is the number of the blocks of the module in which a statement that
\* returns is followed by another statement: one error for each such block
\* and none for the others.  (Two blocks of the module with the same
\* statements are counted once; the modules have at most one such block.)
C16_OneUnreachableErrorPerBlock ==
    phase = "analyzed" =>
        CountMessage(semanticErrors, "unreachable code after statement %d")
            = Cardinality({b \in BlocksOf(moduleAst) : HasUnreachable(b)})

-----------------------------------------------------------------------------
(* Claims about the line terminators in the lexer *)

\* C21: the tokens that Tokenize returns have no two consecutive EOL tokens.
C21_NoConsecutiveEOL ==
    lexStatus = "returned" =>
        \A i \in 1..(Len(lexed) - 1) : ~(lexed[i].Type = "EOL" /\ lexed[i + 1].Type = "EOL")

\* C22: Tokenize never stops with the internal error of tryMatchPattern, a
\* match that does not start at offset zero of the remaining input.
C22_NoMatchAtNonZeroIndex == lexError.msg # "regex matched at non-zero index"

\* the first character of s from i on that is not a space or a tab is a line
\* terminator
RECURSIVE BeforeLineEnd(_, _)
BeforeLineEnd(s, i) ==
    IF i > Len(s) THEN FALSE
    ELSE IF s[i] \in {" ", "\t"} THEN BeforeLineEnd(s, i + 1)
    ELSE s[i] \in {"\n", "\r"}

\* s from i on without the spaces and tabs that end a line
RECURSIVE WithoutTrailingSpaces(_, _)
WithoutTrailingSpaces(s, i) ==
    IF i > Len(s) THEN <<>>
    ELSE IF s[i] \in {" ", "\t"} /\ BeforeLineEnd(s, i)
    THEN WithoutTrailingSpaces(s, i + 1)
    ELSE <<s[i]>> \o WithoutTrailingSpaces(s, i + 1)

\* the tokens of the source are those of the stripped source
SameAsStripped(stripped) ==
    LET l == stripped
    IN  l.error = NoLexError /\ l.tokens = lexed

\* C23: the tokens that Tokenize returns are the tokens of the source without
\* the spaces and tabs that end its lines: trailing spaces change no token
\* and lose no EOL.
C23_TrailingSpacesChangeNoToken ==
    lexStatus = "returned" => SameAsStripped(Tokenize(WithoutTrailingSpaces(source, 1)))

-----------------------------------------------------------------------------
(* SpecPipeline: Check(Parse(tokens)) up to the end of its first pass, as   *)
(* the test of the type checker runs it.  The token slices are the          *)
(* declarations over the type expressions of a bounded depth, and a few     *)
(* programs with each kind of expression that the parser builds.            *)

\* nesting depth of the type expressions
MaxTypeDepth == 1

\* two primitives and a name that is no type
TypeNames == {"i32", "bool", "t"}

\* the type expressions of depth d: a name, T[], (T), and func(P): R with no
\* parameter, a parameter type, or a named parameter, with and without the
\* return clause
RECURSIVE TypeSources(_)
TypeSources(d) ==
    IF d = 0 THEN {<<n>> : n \in TypeNames}
    ELSE LET sub == TypeSources(d - 1)
             params == {<<>>} \cup sub \cup {<<"a", ":", n>> : n \in TypeNames}
             returns == {<<>>} \cup {<<":">> \o s : s \in sub}
         IN  sub \cup {s \o <<"[", "]">> : s \in sub} \cup {<<"(">> \o s \o <<")">> : s \in sub}
                 \cup {<<"func", "(">> \o p \o <<")">> \o r : p \in params, r \in returns}

\* let f: T, and a function declared without return clause next to a
\* variable of the function type without return clause
TypeDecls(d) ==
    {<<"let", "f", ":">> \o s : s \in TypeSources(d)} \cup
    {<<"func", "x", "(">> \o p \o <<")", "{", "}", "\n", "let", "f", ":", "func", "(">> \o q \o <<")">> :
        <<p, q>> \in {<< <<>>, <<>> >>} \cup {<< <<"a", ":", n>>, <<n>> >> : n \in TypeNames}}

\* the statements that end with a closing curly
BraceStmts ==
    {<<"func", "f", "(", ")", "{", "}">>,
     <<"struct", "t", "{", "a", ":", "i32", ",", "}">>,
     <<"for", "(", "let", "x", ":", "i32", "=", "0", ";", "x", ";", "x", ")", "{", "}">>,
     <<"if", "a", "then", "{", "}">>,
     <<"if", "a", "then", "{", "}", "else", "{", "}">>}

NextStmts == {<<"a">>, <<"let", "x", ":", "i32">>, <<"func", "x", "(", ")", "{", "}">>}

\* a statement that ends with a closing curly, and a statement on the next line
BraceInputs == {b \o <<"\n">> \o s : b \in BraceStmts, s \in NextStmts}

\* the member values of the struct literals: a number and a block expression
MemberValues == {<<"1">>, <<"{", "1", "}">>}

\* x = t { a: v, b: w, } with the two members on one line (sep is empty) or
\* on two lines (sep is an EOL)
LiteralsWith(sep) ==
    {<<"x", "=", "t", "{", "a", ":">> \o v \o <<",">> \o sep \o <<"b", ":">> \o w \o <<",", "}">> :
        v \in MemberValues, w \in MemberValues}

LiteralInputs == LiteralsWith(<<>>) \cup LiteralsWith(<<"\n">>)

\* well-formed programs with an if-expression and with a block expression,
\* with and without a result, and one with neither
ExprInputs ==
    {<<"let", "x", ":", "i32", "=", "0", ";", "x", "=", "if", "x", "<", "5", "then", "0", "else", "5">>,
     <<"let", "x", ":", "i32", "=", "if", "true", "then", "0", "else", "5">>,
     <<"let", "x", ":", "i32", "=", "{", "1", "}">>,
     <<"let", "x", ":", "i32", "=", "0", ";", "x", "=", "{", "1", "}">>,
     <<"let", "x", ":", "i32", "=", "0", ";", "{", "x", "=", "1", ";", "}">>,
     <<"{", "}">>,
     <<"let", "x", ":", "i32", "=", "0", ";", "x", "=", "1">>}

PipelineInputs(d) == TypeDecls(d) \cup BraceInputs \cup LiteralInputs \cup ExprInputs

InitPipeline ==
    /\ input \in {TokensOf(ls) : ls \in PipelineInputs(MaxTypeDepth)}
    /\ tokens = input
    /\ pos = 0
    /\ parenStack = <<>>
    /\ inThenBranch = FALSE
    /\ status = "running"
    /\ program = <<>>
    /\ iterations = {}
    /\ CheckIdle

\* errors := Check(parsedAst), first pass: resolved := Resolve(module)
ResolveParsed ==
    /\ status = "returned"
    /\ phase = "idle"
    /\ moduleAst' = Block(program)
    /\ \E res \in {Resolve(Block(program))} :
          /\ resolved' = res
          /\ resolverErrors' = res.Errors
          /\ allErrors' = res.Errors
    /\ phase' = "resolved"
    /\ UNCHANGED <<checkerErrors, semanticErrors, fatal>>
    /\ UNCHANGED <<parserVars, lexVars>>

NextPipeline == ParseStatement \/ ParseReturn \/ ResolveParsed

SpecPipeline == InitPipeline /\ [][NextPipeline]_vars

\* the parsed module has been resolved
Resolved == status = "returned" /\ phase = "resolved"

\* a function type expression written without return clause
OmitsReturnType(typeExpr) ==
    typeExpr.node = "FuncTypeExpr" /\ typeExpr.ReturnType = NamedType("void")

\* the declarations, at the top of the module, of variables of such a type
OmittedReturnDecls ==
    {i \in 1..Len(program) :
        program[i].node = "VarDeclStmt" /\ OmitsReturnType(program[i].Var.Type)}

\* the functions declared without return clause at the top of the module
UnitFuncDecls ==
    {i \in 1..Len(program) :
        program[i].node = "FuncDeclStmt" /\ program[i].ReturnType = Nil}

\* the parameter type expressions of the function declaration g
ParamTypeExprs(g) == [k \in 1..Len(g.Parameters) |-> g.Parameters[k].Type]

UndefinedVoid == PassError("Resolve Error", "undefined type: %s", <<"void">>)

ErrorsOf(errors) == {errors[i] : i \in 1..Len(errors)}

VarTypeOf(name) == LookupVarType(resolved.tables, resolved.RootScope, name)

FuncTypeOf(name) == LookupFunc(resolved.tables, resolved.RootScope, name)

\* the variable of declaration i has the type of the function of declaration j
SameFuncType(i, j) ==
    /\ VarTypeOf(program[i].Var.Name).ok
    /\ FuncTypeOf(program[j].Name).ok
    /\ Equals(VarTypeOf(program[i].Var.Name).type, FuncTypeOf(program[j].Name).type)

\* C24: a function type written without return clause resolves without an
\* undefined-type error about its return type, and to the type of a function
\* that is declared with the same parameter types and without return clause.
C24_OmittedReturnTypeIsUnit ==
    Resolved =>
        /\ OmittedReturnDecls # {} => UndefinedVoid \notin ErrorsOf(resolved.Errors)
        /\ \A i \in OmittedReturnDecls, j \in UnitFuncDecls :
              ParamTypeExprs(program[j]) = program[i].Var.Type.ParamTypes
                  => SameFuncType(i, j)

\* the token t is a SEMICOLON that peek wrote in the place of an EOL
FromEOL(t) ==
    /\ t.Type = "SEMICOLON"
    /\ t.SrcPos \in 1..Len(input)
    /\ input[t.SrcPos].Type = "EOL"

\* the token that the loop of Parse sees before the next statement
FirstOfStatement == Call("peek", P, <<>>).v

\* C25: no statement starts with the SEMICOLON that peek made of an EOL, and
\* a statement that ends with a closing curly followed by a statement on the
\* next line parse into two statements, without a fatal error.
C25_StatementAfterBraceOnNextLine ==
    /\ status = "running" => ~FromEOL(FirstOfStatement)
    /\ input \in {TokensOf(ls) : ls \in BraceInputs} =>
          /\ status # "panic"
          /\ status = "returned" => Len(program) = 2

\* the classes of binary operators of equal precedence in tailPrecedence
SamePrecedence ==
    {{"+", "-"}, {"*", "/", "%"}, {"<", "<=", ">", ">="}}

\* the token slices a op1 b op2 c with op1 and op2 of equal precedence
EqualPrecedenceChains ==
    {TokensOf(<<"a", op1, "b", op2, "c">>) : <<op1, op2>> \in UNION {K \X K : K \in SamePrecedence}}

\* the expression e is BinaryExpr(BinaryExpr(a, op1, b), op2, c)
GroupsToTheLeft(e) ==
    /\ e.node = "BinaryExpr"
    /\ e.Operator = input[4]
    /\ e.Rhs = Ident("c")
    /\ e.Lhs.node = "BinaryExpr"
    /\ e.Lhs.Operator = input[2]
    /\ e.Lhs.Lhs = Ident("a")
    /\ e.Lhs.Rhs = Ident("b")

\* C26: a op1 b op2 c, with op1 and op2 binary operators of equal precedence,
\* parses to the expression statement of BinaryExpr(BinaryExpr(a, op1, b), op2, c).
C26_EqualPrecedenceGroupsLeft ==
    (input \in EqualPrecedenceChains /\ status = "returned") =>
        /\ Len(program) = 1
        /\ program[1].node = "ExpressionStmt"
        /\ GroupsToTheLeft(program[1].Expr)

\* the statement is x = t { a: v, b: w, } with both members
TwoMemberLiteral(stmt) ==
    /\ stmt.node = "ExpressionStmt"
    /\ stmt.Expr.node = "AssignExpr"
    /\ stmt.Expr.AssignedValue.node = "StructLiteralExpr"
    /\ Len(stmt.Expr.AssignedValue.Members) = 2

\* C27: the closing curly of a block expression inside a member value of a
\* struct literal leaves the bracket stack alone, so that the EOL between the
\* members that follow is deleted and the literal parses with all its
\* members; and when Parse has returned the bracket stack is empty.
C27_CloseCurlyPopsOnlyItsOwnOpenCurly ==
    /\ status = "returned" => parenStack = <<>>
    /\ input \in {TokensOf(ls) : ls \in LiteralsWith(<<"\n">>)} =>
          /\ status # "panic"
          /\ status = "returned" => (Len(program) = 1 /\ TwoMemberLiteral(program[1]))

-----------------------------------------------------------------------------
(* SpecParseFair: SpecParse, with Parse run to its end.  Parse is a loop of *)
(* one thread that nothing suspends: an iteration or a return that can be   *)
(* taken is taken.                                                          *)

\* WF_vars(NextParse), with its ENABLED written out: NextParse can be taken
\* exactly while Parse is running
LoopIsFair == []<>(status # "running") \/ []<><<NextParse>>_vars

\* the loop goes on while it can, and at EOF Parse returns
SpecParseFair == InitParse /\ [][NextParse]_vars /\ LoopIsFair /\ WF_vars(ParseReturn)

\* Parse has returned the program or stopped with a fatal error
Halted == status \in {"returned", "panic"}

\* the tokens from the position of the parser to the end of the buffer
Remaining == Len(tokens) - pos

\* peek leaves the position and the tokens before it alone, deletes tokens
\* at the position only, each of them an EOL, and does not return an EOL
PeekDeletesOnlyEOLs ==
    LET q == Call("peek", P, <<>>)
        deleted == Len(tokens) - Len(q.p.tokens)
    IN  /\ q.p.pos = pos
        /\ deleted >= 0
        /\ \A i \in (pos + 1)..(pos + deleted) : tokens[i].Type = "EOL"
        /\ SubSeq(q.p.tokens, 1, pos) = SubSeq(tokens, 1, pos)
        /\ \A i \in (pos + 2)..Len(q.p.tokens) : q.p.tokens[i] = tokens[i + deleted]
        /\ q.v.Type # "EOL"

\* the loops of the parser: the loop of Parse, of parseBlockStmt, of the
\* parameters of parseFuncDeclStmt and of parseFuncTypeExpr, of the arguments
\* of parseFuncCallExpr, of the members of parseStructDeclStmt and of
\* parseStructLiteralExpr, of parseUseDeclStmt, and the loop of parseExpr
Loops ==
    {"module", "block", "parameters", "parameter types", "arguments", "members",
     "literal members", "use", "tail"}

\* the iteration has consumed a token and has added none to the buffer
Consumes(it) == it.posAfter > it.pos /\ it.lenAfter <= it.len

\* the recursive call of peek is made on the buffer without one token, an
\* EOL, at the same position
DeletesOne(it) ==
    /\ it.posAfter = it.pos
    /\ it.lenAfter = it.len - 1
    /\ it.deleted = {"EOL"}

IterationsOf(loop) == {it \in iterations : it.loop = loop}

\* C28: Parse halts on every token slice, returning or with a fatal error.
\* Every iteration of every loop of the parser that has not ended in a fatal
\* error has consumed a token, and every recursive call of peek has deleted
\* one token, an EOL; no loop is left stalled; an iteration of the loop of Parse
\* leaves fewer tokens between the position and the end of the buffer; peek
\* deletes only EOL tokens at the position; and a call of Parse leads to its
\* return or to a fatal error.
C28_ParseHalts ==
    /\ [](/\ \A it \in iterations : it.loop \in Loops \cup {"peek"}
          /\ \A loop \in Loops : \A it \in IterationsOf(loop) : Consumes(it)
          /\ \A it \in IterationsOf("peek") : DeletesOne(it)
          /\ status # "stalled")
    /\ [](status = "running" => (Remaining >= 0 /\ PeekDeletesOnlyEOLs))
    /\ [][(status = "running" /\ status' = "running") => Remaining' < Remaining]_vars
    /\ (status = "running" ~> Halted)

\* Parse returned after two iterations or more of its loop, having iterated
\* every loop of the parser, and peek having called itself and deleted an EOL
C28_Witness ==
    /\ status = "returned"
    /\ Len(program) >= 2
    /\ Len(tokens) < Len(input)
    /\ \A loop \in Loops \cup {"peek"} : IterationsOf(loop) # {}

\* the errors of the resolver about a node of a kind it has no case for
UnknownKindErrors ==
    {e \in ErrorsOf(resolved.Errors) :
        e.msg \in {"unknown expression type: %T", "unknown statement type: %T"}}

\* C29: resolving a well-formed program with an if-expression, a block
\* expression or a unit expression appends no error about an unknown kind of
\* expression or statement.
C29_EveryParsedKindIsResolved ==
    (Resolved /\ input \in {TokensOf(ls) : ls \in ExprInputs}) => UnknownKindErrors = {}

-----------------------------------------------------------------------------
(* Claim about the table that Resolve returns *)

\* the declaration stmt is found from the table st
FoundFrom(st, stmt) ==
    CASE stmt.node = "VarDeclStmt" -> LookupVarType(resolved.tables, st, stmt.Var.Name).ok
      [] stmt.node = "StructDeclStmt" -> LookupStructType(resolved.tables, st, stmt.Name).ok
      [] stmt.node = "FuncDeclStmt" -> LookupFunc(resolved.tables, st, stmt.Name).ok
      [] OTHER -> TRUE

\* C30: when Resolve has returned without error, the table it returns is the
\* table the resolver started with, and a lookup from it finds every
\* variable, struct and function declared by a statement of the module.
C30_ReturnedScopeFindsTopLevelDeclarations ==
    (phase = "resolved" /\ resolved.Errors = <<>>) =>
        /\ resolved.SymbolTable = NewResolver.symbolTable
        /\ \A i \in 1..Len(moduleAst.Statements) :
              FoundFrom(resolved.SymbolTable, moduleAst.Statements[i])

====
